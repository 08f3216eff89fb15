------------------------ MODULE ConnectCommands_proofs ------------------------
(***************************************************************************)
(* Proofs about ConnectCommands, for any number of refreshes, executions   *)
(* and leases.  An outcome is committed at the revision its command was    *)
(* frozen at and moves the record past it, so that no second outcome finds *)
(* that revision again; whatever an execution still has to report was      *)
(* committed before.                                                       *)
(***************************************************************************)
EXTENDS ConnectCommands, TLAPS

-----------------------------------------------------------------------------
(* The inductive invariant.                                                 *)

\* The outcomes that are committed under the revision fence.
Fences(c, result) == result = "quarantined" \/ (result = "succeeded" /\ c # Creation)

Reports(e, c) == exec[e].pc = "complete" /\ exec[e].cmd = c

\* An outcome of the command was committed under the fence.
Effective(c) ==
  \/ c = org.applied \/ c = org.quarantine.of
  \/ Fences(c, receipt[c])
  \/ \E e \in Executions : Reports(e, c) /\ Fences(c, exec[e].result)

\* A frozen command is not ahead of the record, and only frozen ones are leased.
Frozen ==
  /\ org.reserved > 0 => org.revision > 0
  /\ \A c \in Commands : /\ command[c].revision <= org.revision
                         /\ lease[c].owner # NoOne => Queued(c)

MovedPast ==
  \A c \in Commands : Effective(c) => Queued(c) /\ org.revision > command[c].revision

OneEffect ==
  \A c, d \in Refreshes :
    Effective(c) /\ Effective(d) /\ command[c].revision = command[d].revision => c = d

Bound ==
  /\ BindingIsClaimed
  /\ receipt[Creation] = "succeeded" => org.bound
  /\ org.seen <= stripe.version
  /\ stripe.accounts <= 1
  /\ stripe.accounts > 0 /\ ~stripe.remembers => org.lapsed

\* What an execution remembers, against the documents.
Remembers(x) ==
  /\ x \in Memories
  /\ x.pc # "idle" => x.cmd \in Commands /\ Queued(x.cmd)
  /\ x.pc \in {"start", "commit"} => x.cmd = Creation
  /\ x.pc = "apply" => /\ x.cmd # Creation
                       /\ org.revision = command[x.cmd].revision => x.seen >= org.seen
                       /\ x.seen <= stripe.version
  /\ x.pc = "complete" /\ x.cmd = Creation /\ x.result = "succeeded" => org.bound
  /\ x.pc \in {"authorize", "call"} /\ x.cmd = Creation =>
       stripe.remembers \/ stripe.accounts = 0

IInv ==
  /\ TypeOK
  /\ Frozen /\ MovedPast /\ OneEffect /\ Bound
  /\ \A e \in Executions : Remembers(exec[e])

LEMMA IdleFields == Idle \in Memories /\ Idle.pc = "idle"
<1>1. Idle \in Memories
  BY DEF Idle, Memories, Receipts
<1>2. Idle.pc = "idle"
  BY DEF Idle
<1> QED BY <1>1, <1>2

LEMMA ConnectInit == Init => IInv
<1> SUFFICES ASSUME Init PROVE IInv
  OBVIOUS
<1> USE CommandsAssumption, NoOneAssumption, BoundsAssumption
<1>1. TypeOK
  <2>1. org \in Orgs
    BY DEF Init, Orgs, States
  <2>3. exec \in [Executions -> Memories]
    BY IdleFields DEF Init
  <2>4. lease \in [Commands -> [owner : Leases \cup {NoOne}, attempt : 0..MaxAttempts]]
    <3>1. 0 \in 0..MaxAttempts
      OBVIOUS
    <3>2. [owner |-> NoOne, attempt |-> 0] \in [owner : Leases \cup {NoOne}, attempt : 0..MaxAttempts]
      BY <3>1
    <3> QED BY <3>2 DEF Init
  <2>5. command \in [Commands -> [revision : Nat, authority : Nat]]
    BY DEF Init
  <2>6. receipt \in [Commands -> Receipts]
    BY DEF Init, Receipts
  <2> QED BY <2>1, <2>3, <2>4, <2>5, <2>6 DEF Init, TypeOK
<1>2. ASSUME NEW c \in Commands PROVE ~Effective(c)
  <2>1. c # NoOne /\ org.applied = NoOne /\ org.quarantine.of = NoOne /\ receipt[c] = "none"
    BY DEF Init
  <2>2. \A e \in Executions : exec[e].pc = "idle"
    BY DEF Init, Idle
  <2> QED BY <2>1, <2>2 DEF Effective, Fences, Reports
<1>3. Frozen
  <2>1. org.reserved = 0 /\ org.revision = 0
    BY DEF Init
  <2>2. \A c \in Commands : command[c].revision = 0 /\ lease[c].owner = NoOne
    BY DEF Init
  <2> QED BY <2>1, <2>2 DEF Frozen
<1>4. MovedPast /\ OneEffect
  BY <1>2 DEF MovedPast, OneEffect, Commands
<1>5. Bound
  <2>1. Creation \in Commands
    BY DEF Commands
  <2>2. receipt[Creation] = "none"
    BY <2>1 DEF Init
  <2>3. org.bound = FALSE /\ org.seen = 0 /\ claim = "none" /\ stripe.accounts = 0 /\ stripe.version = 0
    BY DEF Init
  <2> QED BY <2>2, <2>3 DEF Bound, BindingIsClaimed
<1>6. ASSUME NEW e \in Executions PROVE Remembers(exec[e])
  <2>1. exec[e] = Idle
    BY DEF Init
  <2>2. exec[e] \in Memories
    BY <1>1 DEF TypeOK
  <2>3. exec[e].pc = "idle"
    BY <2>1, IdleFields
  <2> QED BY <2>2, <2>3 DEF Remembers
<1> QED BY <1>1, <1>3, <1>4, <1>5, <1>6 DEF IInv

-----------------------------------------------------------------------------
(* What carries over a step.                                                *)

\* The fields of the documents.
LEMMA Types ==
  ASSUME TypeOK
  PROVE  /\ authority \in [rev : Nat, fresh : BOOLEAN] /\ authority.rev \in Nat
         /\ org \in Orgs /\ org.revision \in Nat /\ org.seen \in Nat /\ org.bound \in BOOLEAN
         /\ org.reserved \in Nat /\ org.lapsed \in BOOLEAN
         /\ stripe \in [accounts : Nat, remembers : BOOLEAN, version : Nat]
         /\ stripe.accounts \in Nat /\ stripe.version \in Nat /\ stripe.remembers \in BOOLEAN
         /\ \A c \in Commands :
              /\ command[c] \in [revision : Nat, authority : Nat] /\ command[c].revision \in Nat
              /\ lease[c] \in [owner : Leases \cup {NoOne}, attempt : 0..MaxAttempts]
              /\ receipt[c] \in Receipts
         /\ \A e \in Executions :
              exec[e] \in Memories /\ exec[e].seen \in Nat /\ exec[e].lease \in Leases \cup {NoOne}
  BY DEF TypeOK, Orgs, Memories

\* Nothing frozen before is frozen anew.
FrozenStays == \A c \in Commands : Queued(c) => command'[c] = command[c]

\* An execution that does not move still remembers what is true.
LEMMA StillRemembers ==
  ASSUME IInv, TypeOK', NEW e \in Executions, exec'[e] = exec[e], FrozenStays,
         org.bound => org'.bound,
         \/ org'.revision > org.revision
         \/ org'.revision = org.revision /\ org'.seen = org.seen,
         stripe'.version >= stripe.version,
         stripe.remembers \/ stripe.accounts = 0 => stripe'.remembers \/ stripe'.accounts = 0
  PROVE  Remembers(exec[e])'
<1> DEFINE x == exec[e]
<1>1. Remembers(x) /\ Frozen /\ TypeOK
  BY DEF IInv
<1>2. CASE x.pc = "idle"
  BY <1>1, <1>2 DEF Remembers
<1>3. CASE x.pc # "idle"
  <2>1. x.cmd \in Commands /\ command'[x.cmd] = command[x.cmd] /\ Queued(x.cmd)'
    BY <1>1, <1>3 DEF Remembers, FrozenStays, Queued
  <2>2. /\ x.seen \in Nat /\ org.revision \in Nat /\ stripe.version \in Nat /\ org.seen \in Nat
        /\ command[x.cmd].revision \in Nat
    BY <1>1, <2>1, Types
  <2>3. org'.revision \in Nat /\ stripe'.version \in Nat /\ org'.seen \in Nat
    BY DEF TypeOK, Orgs
  <2>4. org.revision >= command[x.cmd].revision
    BY <1>1, <2>1, <2>2 DEF Frozen
  <2>5. x.pc = "apply" => x.cmd # Creation /\ x.seen <= stripe'.version
    BY <1>1, <2>2, <2>3 DEF Remembers
  <2>6. x.pc = "apply" /\ org'.revision = command'[x.cmd].revision => x.seen >= org'.seen
    BY <1>1, <2>1, <2>2, <2>3, <2>4 DEF Remembers
  <2>7. /\ x.pc = "complete" /\ x.cmd = Creation /\ x.result = "succeeded" => org'.bound
        /\ x.pc \in {"authorize", "call"} /\ x.cmd = Creation =>
             stripe'.remembers \/ stripe'.accounts = 0
    BY <1>1 DEF Remembers
  <2>8. x \in Memories /\ (x.pc \in {"start", "commit"} => x.cmd = Creation)
    BY <1>1 DEF Remembers
  <2> QED BY <2>1, <2>5, <2>6, <2>7, <2>8 DEF Remembers
<1> QED BY <1>2, <1>3

\* A step that commits no outcome under the fence.
LEMMA NoEffect ==
  ASSUME IInv, TypeOK', FrozenStays, org'.revision >= org.revision,
         \A c \in Commands : Effective(c)' => Effective(c)
  PROVE  MovedPast' /\ OneEffect'
<1>1. \A c \in Commands : Effective(c)' =>
        /\ Effective(c) /\ Queued(c) /\ command'[c] = command[c]
        /\ org.revision > command[c].revision
  BY DEF IInv, MovedPast, FrozenStays
<1>2. org'.revision \in Nat
  BY DEF TypeOK, Orgs
<1>3. org.revision \in Nat /\ \A c \in Commands : command[c].revision \in Nat
  BY Types DEF IInv
<1>4. MovedPast'
  BY <1>1, <1>2, <1>3 DEF MovedPast, Queued
<1>5. OneEffect'
  BY <1>1 DEF IInv, OneEffect, Commands
<1> QED BY <1>4, <1>5

\* A step that commits the outcome of one command, at the revision the command
\* was frozen at.
LEMMA NewEffect ==
  ASSUME IInv, TypeOK', command' = command, org'.revision > org.revision,
         NEW k \in Commands, Queued(k), org.revision = command[k].revision,
         \A c \in Commands : Effective(c)' => Effective(c) \/ c = k
  PROVE  MovedPast' /\ OneEffect'
<1>1. /\ org.revision \in Nat /\ \A c \in Commands : command[c].revision \in Nat
      /\ org'.revision \in Nat
  <2>1. TypeOK
    BY DEF IInv
  <2>2. org'.revision \in Nat
    BY DEF TypeOK, Orgs
  <2> QED BY <2>1, <2>2, Types
<1>2. \A c \in Commands : Effective(c) => Queued(c) /\ org.revision > command[c].revision
  BY DEF IInv, MovedPast
<1>3. MovedPast'
  BY <1>1, <1>2 DEF MovedPast, Queued
<1>4. \A c, d \in Refreshes :
        /\ Effective(c)' /\ Effective(d)' /\ command'[c].revision = command'[d].revision
        => c = d
  BY <1>1, <1>2 DEF IInv, OneEffect, Commands
<1> QED BY <1>3, <1>4 DEF OneEffect

LEMMA EffectiveSame ==
  ASSUME UNCHANGED <<receipt, exec>>, org'.applied = org.applied, org'.quarantine = org.quarantine
  PROVE  \A c \in Commands : Effective(c)' => Effective(c)
  BY DEF Effective, Fences, Reports

-----------------------------------------------------------------------------
(* The environment and the edge.                                            *)

LEMMA EnvironmentFrom ==
  ASSUME IInv, TypeOK', Frozen', FrozenStays, UNCHANGED <<receipt, claim, exec>>,
         org'.applied = org.applied, org'.quarantine = org.quarantine,
         org'.bound = org.bound, org'.seen = org.seen, org.lapsed => org'.lapsed,
         org'.revision >= org.revision, stripe'.version >= stripe.version,
         stripe'.accounts = stripe.accounts, stripe'.remembers = stripe.remembers
  PROVE  IInv'
<1>1. MovedPast' /\ OneEffect'
  BY EffectiveSame, NoEffect
<1>2. TypeOK /\ Bound
  BY DEF IInv
<1>3. /\ org.seen \in Nat /\ org.revision \in Nat /\ stripe.version \in Nat
      /\ org'.revision \in Nat /\ stripe'.version \in Nat
  <2>1. org'.revision \in Nat /\ stripe'.version \in Nat
    BY DEF TypeOK, Orgs
  <2> QED BY <1>2, <2>1, Types
<1>4. Bound'
  BY <1>2, <1>3 DEF Bound, BindingIsClaimed
<1>5. org'.revision > org.revision \/ (org'.revision = org.revision /\ org'.seen = org.seen)
  BY <1>3
<1>6. \A e \in Executions : Remembers(exec[e])'
  BY <1>5, StillRemembers
<1> QED BY <1>1, <1>4, <1>6 DEF IInv

LEMMA AuthorityStep ==
  ASSUME IInv, (\E rev \in 1..MaxAuthority : ApplyProjection(rev)) \/ AuthorityExpires
  PROVE  IInv'
<1>1. UNCHANGED <<org, command, lease, receipt, claim, stripe, exec>>
  BY DEF ApplyProjection, AuthorityExpires
<1>2. TypeOK /\ Frozen
  BY DEF IInv
<1>3. authority' \in [rev : Nat, fresh : BOOLEAN]
  <2>1. CASE AuthorityExpires
    BY <1>2, <2>1 DEF AuthorityExpires, TypeOK
  <2>2. CASE \E rev \in 1..MaxAuthority : ApplyProjection(rev)
    <3>1. PICK rev \in 1..MaxAuthority : ApplyProjection(rev)
      BY <2>2
    <3>2. rev \in Nat
      BY BoundsAssumption
    <3> QED BY <3>1, <3>2 DEF ApplyProjection
  <2> QED BY <2>1, <2>2
<1>4. TypeOK'
  BY <1>1, <1>2, <1>3 DEF TypeOK
<1>5. Frozen' /\ FrozenStays
  BY <1>1, <1>2 DEF Frozen, FrozenStays, Queued
<1>6. org.revision \in Nat /\ stripe.version \in Nat
  BY <1>2, Types
<1>7. org'.revision >= org.revision /\ stripe'.version >= stripe.version
  BY <1>1, <1>6
<1> QED BY <1>1, <1>4, <1>5, <1>7, EnvironmentFrom

LEMMA ClockStep ==
  ASSUME IInv, WindowCloses \/ AccountChanges \/ \E c \in Commands : LeaseExpires(c)
  PROVE  IInv'
<1>1. TypeOK /\ Frozen
  BY DEF IInv
<1>2. org.revision \in Nat /\ stripe.version \in Nat /\ org \in Orgs
  BY <1>1, Types
<1>3. CASE WindowCloses
  <2>1. UNCHANGED <<authority, command, lease, receipt, claim, stripe, exec>>
    BY <1>3 DEF WindowCloses
  <2>2. org' = [org EXCEPT !.lapsed = TRUE]
    BY <1>3 DEF WindowCloses
  <2>3. /\ org' \in Orgs /\ org'.revision = org.revision /\ org'.reserved = org.reserved
        /\ org'.applied = org.applied /\ org'.quarantine = org.quarantine
        /\ org'.bound = org.bound /\ org'.seen = org.seen /\ org'.lapsed
    BY <1>2, <2>2 DEF Orgs
  <2>4. TypeOK'
    BY <1>1, <2>1, <2>3 DEF TypeOK
  <2>5. Frozen' /\ FrozenStays
    BY <1>1, <2>1, <2>3 DEF Frozen, FrozenStays, Queued
  <2>6. org'.revision >= org.revision /\ stripe'.version >= stripe.version
    BY <1>2, <2>1, <2>3
  <2> QED BY <2>1, <2>3, <2>4, <2>5, <2>6, EnvironmentFrom
<1>4. CASE AccountChanges
  <2>1. UNCHANGED <<authority, org, command, lease, receipt, claim, exec>>
    BY <1>4 DEF AccountChanges
  <2>2. stripe' = [stripe EXCEPT !.version = stripe.version + 1]
    BY <1>4 DEF AccountChanges
  <2>3. /\ stripe' \in [accounts : Nat, remembers : BOOLEAN, version : Nat]
        /\ stripe'.accounts = stripe.accounts /\ stripe'.remembers = stripe.remembers
        /\ stripe'.version = stripe.version + 1
    BY <1>1, <1>2, <2>2, Types
  <2>4. TypeOK'
    BY <1>1, <2>1, <2>3 DEF TypeOK
  <2>5. Frozen' /\ FrozenStays
    BY <1>1, <2>1 DEF Frozen, FrozenStays, Queued
  <2>6. org'.revision >= org.revision /\ stripe'.version >= stripe.version
    BY <1>2, <2>1, <2>3
  <2> QED BY <2>1, <2>3, <2>4, <2>5, <2>6, EnvironmentFrom
<1>5. ASSUME NEW c \in Commands, LeaseExpires(c)
      PROVE  IInv'
  <2>1. UNCHANGED <<authority, org, command, receipt, claim, stripe, exec>>
    BY <1>5 DEF LeaseExpires
  <2>2. lease' = [lease EXCEPT ![c].owner = NoOne]
    BY <1>5 DEF LeaseExpires
  <2>3. lease' \in [Commands -> [owner : Leases \cup {NoOne}, attempt : 0..MaxAttempts]]
    BY <1>1, <2>2 DEF TypeOK
  <2>4. \A d \in Commands : lease'[d].owner # NoOne => lease[d].owner # NoOne
    BY <1>1, <2>2 DEF TypeOK
  <2>5. TypeOK'
    BY <1>1, <2>1, <2>3 DEF TypeOK
  <2>6. Frozen' /\ FrozenStays
    BY <1>1, <2>1, <2>4 DEF Frozen, FrozenStays, Queued
  <2>7. org'.revision >= org.revision /\ stripe'.version >= stripe.version
    BY <1>2, <2>1
  <2> QED BY <2>1, <2>5, <2>6, <2>7, EnvironmentFrom
<1> QED BY <1>3, <1>4, <1>5

\* Stripe forgets the key when no execution can use it any more.
LEMMA KeyStep == ASSUME IInv, KeyForgotten PROVE IInv'
<1>1. TypeOK /\ Frozen /\ Bound
  BY DEF IInv
<1>2. UNCHANGED <<authority, org, command, lease, receipt, claim, exec>>
  BY DEF KeyForgotten
<1>3. stripe' = [stripe EXCEPT !.remembers = FALSE]
  BY DEF KeyForgotten
<1>4. /\ stripe' \in [accounts : Nat, remembers : BOOLEAN, version : Nat]
      /\ stripe'.accounts = stripe.accounts /\ stripe'.version = stripe.version
  BY <1>1, <1>3, Types
<1>5. TypeOK'
  BY <1>1, <1>2, <1>4 DEF TypeOK
<1>6. Frozen' /\ FrozenStays
  BY <1>1, <1>2 DEF Frozen, FrozenStays, Queued
<1>7. Bound'
  BY <1>1, <1>2, <1>4 DEF Bound, BindingIsClaimed, KeyForgotten
<1>8. MovedPast' /\ OneEffect'
  <2>1. org.revision \in Nat
    BY <1>1, Types
  <2>2. org'.revision >= org.revision
    BY <1>2, <2>1
  <2> QED BY <1>2, <1>5, <1>6, <2>2, EffectiveSame, NoEffect
<1>9. ASSUME NEW e \in Executions PROVE Remembers(exec[e])'
  <2>1. Remembers(exec[e]) /\ ~(exec[e].pc \in {"authorize", "call"} /\ exec[e].cmd = Creation)
    BY DEF IInv, KeyForgotten
  <2> QED BY <1>2, <1>4, <2>1 DEF Remembers, Queued
<1> QED BY <1>5, <1>6, <1>7, <1>8, <1>9 DEF IInv

LEMMA ReserveStep ==
  ASSUME IInv, NEW a \in 1..authority.rev, Reserve(a)
  PROVE  IInv'
<1>1. TypeOK /\ Frozen
  BY DEF IInv
<1>2. org.revision \in Nat /\ stripe.version \in Nat /\ org \in Orgs /\ a \in Nat
      /\ \A c \in Commands : command[c].revision \in Nat
  BY <1>1, Types
<1>3. UNCHANGED <<authority, command, lease, receipt, claim, stripe, exec>>
  BY DEF Reserve
<1>4. \/ /\ org' = [org EXCEPT !.revision = org.revision + 1, !.state = "provisioning",
                                 !.reserved = a]
      \/ /\ org.reserved > 0
         /\ org' = [org EXCEPT !.state = "security_review"]
  BY DEF Reserve
<1>5. /\ org' \in Orgs /\ org'.revision >= org.revision
      /\ org'.applied = org.applied /\ org'.quarantine = org.quarantine
      /\ org'.bound = org.bound /\ org'.seen = org.seen /\ org'.lapsed = org.lapsed
      /\ org'.reserved > 0 => org'.revision > 0
  <2>1. CASE org' = [org EXCEPT !.revision = org.revision + 1, !.state = "provisioning",
                                !.reserved = a]
    <3>1. org' \in Orgs
      <4>1. PICK n \in Nat : n = org.revision + 1
        BY <1>2
      <4>2. org' = [org EXCEPT !.revision = n, !.state = "provisioning", !.reserved = a]
        BY <2>1, <4>1
      <4>3. "provisioning" \in States
        BY DEF States
      <4> HIDE DEF States
      <4> QED BY <1>2, <4>2, <4>3 DEF Orgs
    <3>2. /\ org'.revision = org.revision + 1 /\ org'.applied = org.applied
          /\ org'.quarantine = org.quarantine /\ org'.bound = org.bound
          /\ org'.seen = org.seen /\ org'.lapsed = org.lapsed
      BY <1>2, <2>1 DEF Orgs
    <3> QED BY <1>2, <3>1, <3>2
  <2>2. CASE org.reserved > 0 /\ org' = [org EXCEPT !.state = "security_review"]
    <3>1. org' \in Orgs
      BY <1>2, <2>2 DEF Orgs, States
    <3>2. /\ org'.revision = org.revision /\ org'.applied = org.applied
          /\ org'.quarantine = org.quarantine /\ org'.bound = org.bound
          /\ org'.seen = org.seen /\ org'.lapsed = org.lapsed
      BY <1>2, <2>2 DEF Orgs
    <3>3. org.revision > 0
      BY <1>1, <2>2 DEF Frozen
    <3> QED BY <1>2, <3>1, <3>2, <3>3
  <2> QED BY <1>4, <2>1, <2>2
<1>6. TypeOK'
  BY <1>1, <1>3, <1>5 DEF TypeOK
<1>7. Frozen' /\ FrozenStays
  <2>1. org'.revision \in Nat
    BY <1>5 DEF Orgs
  <2>2. \A c \in Commands : command[c].revision <= org'.revision
    BY <1>1, <1>2, <1>5, <2>1 DEF Frozen
  <2> QED BY <1>1, <1>3, <1>5, <2>2 DEF Frozen, FrozenStays, Queued
<1>8. stripe'.version >= stripe.version
  BY <1>2, <1>3
<1> QED BY <1>3, <1>5, <1>6, <1>7, <1>8, EnvironmentFrom

\* A command that was not queued is frozen at a revision the record has reached.
LEMMA FreezeStep ==
  ASSUME IInv, Begin \/ \E k \in Refreshes, a \in 1..authority.rev : Refresh(k, a)
  PROVE  IInv'
<1>1. TypeOK /\ Frozen
  BY DEF IInv
<1>2. org.revision \in Nat /\ stripe.version \in Nat /\ org.reserved \in Nat
      /\ authority.rev \in Nat /\ \A c \in Commands : command[c].revision \in Nat
  BY <1>1, Types
<1>3. UNCHANGED <<authority, org, lease, receipt, claim, stripe, exec>>
  BY DEF Begin, Refresh
<1>4. \E k \in Commands, v, a \in Nat :
        /\ ~Queued(k) /\ v <= org.revision
        /\ command' = [command EXCEPT ![k] = [revision |-> v, authority |-> a]]
  <2>1. CASE Begin
    <3>1. 1 <= org.revision
      BY <1>1, <1>2, <2>1 DEF Begin, Frozen
    <3> QED BY <1>2, <2>1, <3>1 DEF Begin, Commands
  <2>2. CASE \E k \in Refreshes, a \in 1..authority.rev : Refresh(k, a)
    <3>1. PICK k \in Refreshes, a \in 1..authority.rev : Refresh(k, a)
      BY <2>2
    <3>2. a \in Nat /\ k \in Commands /\ org.revision <= org.revision
      BY <1>2 DEF Commands
    <3> QED BY <1>2, <3>1, <3>2 DEF Refresh
  <2> QED BY <2>1, <2>2
<1>5. PICK k \in Commands, v \in Nat, a \in Nat :
        /\ ~Queued(k) /\ v <= org.revision
        /\ command' = [command EXCEPT ![k] = [revision |-> v, authority |-> a]]
  BY <1>4
<1>6. command' \in [Commands -> [revision : Nat, authority : Nat]]
  BY <1>1, <1>5 DEF TypeOK
<1>7. command'[k].revision = v /\ \A c \in Commands \ {k} : command'[c] = command[c]
  BY <1>1, <1>5 DEF TypeOK
<1>8. TypeOK'
  BY <1>1, <1>3, <1>6 DEF TypeOK
<1>9. FrozenStays
  BY <1>5, <1>7 DEF FrozenStays
<1>10. Frozen'
  <2>1. \A c \in Commands : command'[c].revision <= org.revision
    BY <1>1, <1>5, <1>7 DEF Frozen
  <2>2. \A c \in Commands : Queued(c) => Queued(c)'
    BY <1>9 DEF FrozenStays, Queued
  <2> QED BY <1>1, <1>3, <2>1, <2>2 DEF Frozen
<1>11. org'.revision >= org.revision /\ stripe'.version >= stripe.version
  BY <1>2, <1>3
<1> QED BY <1>3, <1>8, <1>9, <1>10, <1>11, EnvironmentFrom

-----------------------------------------------------------------------------
(* Leases, receipts and the steps of one execution.                         *)

\* What an execution that does not move sees of a step of another.
LEMMA ExecutionMoves ==
  ASSUME IInv, TypeOK', NEW e \in Executions, NEW x, exec' = [exec EXCEPT ![e] = x],
         Remembers(x)', command' = command, org.bound => org'.bound,
         \/ org'.revision > org.revision
         \/ org'.revision = org.revision /\ org'.seen = org.seen,
         stripe'.version = stripe.version,
         stripe.remembers \/ stripe.accounts = 0 => stripe'.remembers \/ stripe'.accounts = 0
  PROVE  \A f \in Executions : Remembers(exec[f])'
<1>1. TypeOK
  BY DEF IInv
<1>2. exec'[e] = x /\ \A f \in Executions \ {e} : exec'[f] = exec[f]
  BY <1>1 DEF TypeOK
<1>3. Remembers(exec[e])'
  BY <1>2 DEF Remembers
<1>4. ASSUME NEW f \in Executions \ {e} PROVE Remembers(exec[f])'
  <2>1. FrozenStays /\ stripe.version \in Nat
    BY <1>1, Types DEF FrozenStays
  <2>2. stripe'.version >= stripe.version
    BY <2>1
  <2> QED BY <1>2, <2>1, <2>2, StillRemembers
<1> QED BY <1>3, <1>4

\* An execution goes on by itself; it reports what was committed.
LEMMA ExecutionAlone ==
  ASSUME IInv, NEW e \in Executions, NEW x, exec' = [exec EXCEPT ![e] = x], Remembers(x),
         x.pc = "complete" /\ Fences(x.cmd, x.result) => Effective(x.cmd),
         UNCHANGED <<authority, org, command, lease, receipt, claim, stripe>>
  PROVE  IInv'
<1>1. TypeOK /\ Frozen /\ Bound
  BY DEF IInv
<1>2. x \in Memories /\ Remembers(x)'
  BY DEF Remembers, Queued
<1>3. TypeOK'
  BY <1>1, <1>2 DEF TypeOK
<1>4. FrozenStays /\ Frozen' /\ Bound'
  BY <1>1 DEF FrozenStays, Frozen, Bound, BindingIsClaimed, Queued
<1>5. \A c \in Commands : Effective(c)' => Effective(c)
  <2>1. exec'[e] = x /\ \A f \in Executions \ {e} : exec'[f] = exec[f]
    BY <1>1 DEF TypeOK
  <2> QED BY <2>1 DEF Effective, Reports, Fences
<1>6. org.revision \in Nat
  BY <1>1, Types
<1>7. org'.revision >= org.revision
  BY <1>6
<1>8. MovedPast' /\ OneEffect'
  BY <1>3, <1>4, <1>5, <1>7, NoEffect
<1>9. \A f \in Executions : Remembers(exec[f])'
  BY <1>2, <1>3, ExecutionMoves
<1> QED BY <1>3, <1>4, <1>8, <1>9 DEF IInv

Others == <<authority, org, command, lease, receipt, claim, stripe>>

LEMMA Memory ==
  ASSUME IInv, NEW e \in Executions
  PROVE  /\ exec[e] \in Memories /\ Remembers(exec[e])
         /\ exec[e].pc # "idle" => exec[e].cmd \in Commands /\ Queued(exec[e].cmd)
  BY Types DEF IInv, Remembers

LEMMA EndsStep ==
  ASSUME IInv, NEW e \in Executions, exec[e].pc # "idle", NEW r \in Receipts, Ends(e, r),
         UNCHANGED Others, exec[e].cmd = Creation /\ r = "succeeded" => org.bound,
         Fences(exec[e].cmd, r) => Effective(exec[e].cmd)
  PROVE  IInv'
<1> DEFINE x == [Idle EXCEPT !.pc = "complete", !.cmd = exec[e].cmd, !.lease = exec[e].lease,
                             !.result = r]
<1>1. x \in Memories /\ x.pc = "complete" /\ x.cmd = exec[e].cmd /\ x.result = r
  <2>1. exec[e] \in Memories
    BY Memory
  <2> QED BY <2>1 DEF Memories, Idle, Receipts
<1>2. exec' = [exec EXCEPT ![e] = x]
  BY DEF Ends
<1> HIDE DEF x
<1>3. Remembers(x)
  BY <1>1, Memory DEF Remembers
<1> QED BY <1>1, <1>2, <1>3, ExecutionAlone DEF Others

LEMMA ThrowsStep ==
  ASSUME IInv, NEW e \in Executions, Throws(e), UNCHANGED Others
  PROVE  IInv'
<1>1. Remembers(Idle)
  BY IdleFields DEF Remembers
<1> QED BY <1>1, IdleFields, ExecutionAlone DEF Throws, Others

LEMMA FailsStep ==
  ASSUME IInv, NEW e \in Executions, exec[e].pc # "idle", NEW reason \in Reasons,
         NEW evidence \in BOOLEAN, Fails(e, reason, evidence), UNCHANGED Others
  PROVE  IInv'
<1> DEFINE x == [exec[e] EXCEPT !.pc = "quarantine", !.reason = reason, !.evidence = evidence]
<1>1. x \in Memories /\ x.pc = "quarantine" /\ x.cmd = exec[e].cmd
  <2>1. exec[e] \in Memories
    BY Memory
  <2> QED BY <2>1 DEF Memories
<1>2. exec' = [exec EXCEPT ![e] = x]
  BY DEF Fails
<1> HIDE DEF x
<1>3. Remembers(x)
  BY <1>1, Memory DEF Remembers
<1> QED BY <1>1, <1>2, <1>3, ExecutionAlone DEF Others

LEMMA GoesStep ==
  ASSUME IInv, NEW e \in Executions, exec[e].pc # "idle",
         NEW pc \in {"read", "authorize", "call", "confirm"}, Goes(e, pc), UNCHANGED Others,
         pc \in {"authorize", "call"} /\ exec[e].cmd = Creation =>
           stripe.remembers \/ stripe.accounts = 0
  PROVE  IInv'
<1> DEFINE x == [exec[e] EXCEPT !.pc = pc]
<1>1. x \in Memories /\ x.pc = pc /\ x.cmd = exec[e].cmd
  <2>1. exec[e] \in Memories
    BY Memory
  <2> QED BY <2>1 DEF Memories
<1>2. exec' = [exec EXCEPT ![e] = x]
  BY DEF Goes
<1> HIDE DEF x
<1>3. Remembers(x)
  BY <1>1, Memory DEF Remembers
<1> QED BY <1>1, <1>2, <1>3, ExecutionAlone DEF Others

\* The window of the reservation is open while the key is needed.
LEMMA KeyNeeded ==
  ASSUME IInv, Stands(Creation)
  PROVE  stripe.remembers \/ stripe.accounts = 0
<1>1. ~org.lapsed /\ Bound /\ stripe.accounts \in Nat
  BY Types DEF IInv, Stands
<1> QED BY <1>1 DEF Bound

LEMMA FirstSteps ==
  ASSUME IInv, NEW e \in Executions, FindReceipt(e) \/ ReadStatus(e) \/ Confirm(e)
  PROVE  IInv'
<1> DEFINE c == exec[e].cmd
<1>1. UNCHANGED Others /\ exec[e].pc # "idle"
  BY DEF FindReceipt, ReadStatus, Confirm, Others
<1>2. c \in Commands
  BY <1>1, Memory
<1>3. "succeeded" \in Receipts /\ "quarantined" \in Receipts /\ "failed_precondition" \in Reasons
  BY DEF Receipts, Reasons
<1>4. CASE FindReceipt(e)
  <2>1. CASE org.bound
    <3>1. Ends(e, "succeeded") /\ c = Creation
      BY <1>4, <2>1, Memory DEF FindReceipt, Remembers
    <3> QED BY <1>1, <1>3, <2>1, <3>1, EndsStep DEF Fences
  <2>2. CASE ~org.bound
    BY <1>1, <1>4, <2>2, GoesStep DEF FindReceipt
  <2> QED BY <2>1, <2>2
<1>5. CASE Confirm(e)
  <2>1. CASE org.quarantine.of = c
    <3>1. Ends(e, "quarantined") /\ Effective(c)
      BY <1>5, <2>1 DEF Confirm, Effective
    <3> QED BY <1>1, <1>3, <3>1, EndsStep
  <2>2. CASE org.quarantine.of # c
    BY <1>1, <1>5, <2>2, ThrowsStep DEF Confirm
  <2> QED BY <2>1, <2>2
<1>6. CASE ReadStatus(e)
  <2>1. CASE Goes(e, "confirm")
    BY <1>1, <2>1, GoesStep
  <2>2. CASE org.applied = c /\ Ends(e, "succeeded")
    <3>1. c # Creation /\ Effective(c)
      <4>1. TypeOK
        BY DEF IInv
      <4>2. org.applied \in Refreshes \cup {NoOne}
        BY <4>1, Types DEF Orgs
      <4> QED BY <1>2, <2>2, <4>2, CommandsAssumption, NoOneAssumption DEF Effective, Commands
    <3> QED BY <1>1, <1>3, <2>2, <3>1, EndsStep
  <2>3. CASE Stands(c) /\ Goes(e, "authorize")
    BY <1>1, <2>3, GoesStep, KeyNeeded
  <2>4. CASE Fails(e, "failed_precondition", FALSE)
    BY <1>1, <1>3, <2>4, FailsStep
  <2>5. CASE c # Creation /\ exec' = [exec EXCEPT ![e].pc = "authorize",
                                                  ![e].reason = "failed_precondition"]
    <3> DEFINE x == [exec[e] EXCEPT !.pc = "authorize", !.reason = "failed_precondition"]
    <3>1. x \in Memories /\ x.pc = "authorize" /\ x.cmd = exec[e].cmd
      <4>1. exec[e] \in Memories
        BY Memory
      <4> QED BY <1>3, <4>1 DEF Memories
    <3>2. exec' = [exec EXCEPT ![e] = x]
      BY <2>5
    <3> HIDE DEF x
    <3>3. Remembers(x)
      BY <1>1, <2>5, <3>1, Memory DEF Remembers
    <3> QED BY <1>1, <3>1, <3>2, <3>3, ExecutionAlone DEF Others
  <2> QED BY <1>6, <2>1, <2>2, <2>3, <2>4, <2>5 DEF ReadStatus
<1> QED BY <1>4, <1>5, <1>6

LEMMA NextSteps ==
  ASSUME IInv, NEW e \in Executions, Authorize(e) \/ Refused(e) \/ Retrieve(e) \/ Die(e)
  PROVE  IInv'
<1>1. UNCHANGED Others /\ exec[e].pc # "idle"
  BY DEF Authorize, Refused, Retrieve, Die, Others
<1>2. "failed_precondition" \in Reasons /\ "permission_denied" \in Reasons
  BY DEF Reasons
<1>3. CASE Authorize(e)
  <2>1. CASE Fails(e, "failed_precondition", FALSE) \/ Fails(e, "permission_denied", FALSE)
    BY <1>1, <1>2, <2>1, FailsStep
  <2>2. CASE exec[e].reason # "" /\ Fails(e, exec[e].reason, FALSE)
    <3>1. exec[e].reason \in Reasons
      BY <2>2, Memory DEF Memories
    <3> QED BY <1>1, <2>2, <3>1, FailsStep
  <2>3. CASE Goes(e, "call")
    <3>1. exec[e].cmd = Creation => stripe.remembers \/ stripe.accounts = 0
      BY <1>3, Memory DEF Authorize, Remembers
    <3> QED BY <1>1, <2>3, <3>1, GoesStep
  <2> QED BY <1>3, <2>1, <2>2, <2>3 DEF Authorize
<1>4. CASE Refused(e)
  BY <1>1, <1>2, <1>4, FailsStep DEF Refused
<1>5. CASE Die(e)
  BY <1>1, <1>5, ThrowsStep DEF Die, Throws
<1>6. CASE Retrieve(e)
  <2> DEFINE x == [exec[e] EXCEPT !.pc = "apply", !.seen = stripe.version]
  <2>1. TypeOK /\ Bound
    BY DEF IInv
  <2>2. stripe.version \in Nat /\ org.seen \in Nat
    BY <2>1, Types
  <2>3. x \in Memories /\ x.pc = "apply" /\ x.cmd = exec[e].cmd /\ x.seen = stripe.version
    <3>1. exec[e] \in Memories
      BY Memory
    <3> QED BY <2>2, <3>1 DEF Memories
  <2>4. exec' = [exec EXCEPT ![e] = x] /\ exec[e].cmd # Creation
    BY <1>6 DEF Retrieve
  <2> HIDE DEF x
  <2>5. x.seen >= org.seen /\ x.seen <= stripe.version
    BY <2>1, <2>2, <2>3 DEF Bound
  <2>6. Remembers(x)
    BY <1>1, <2>3, <2>4, <2>5, Memory DEF Remembers
  <2> QED BY <1>1, <2>3, <2>4, <2>6, ExecutionAlone DEF Others
<1> QED BY <1>3, <1>4, <1>5, <1>6

\* A lease is granted or found again.
LEMMA StartsStep ==
  ASSUME IInv, NEW e \in Executions, NEW c \in Commands, NEW l \in Leases \cup {NoOne},
         Queued(c), Starts(e, c, l),
         UNCHANGED <<authority, org, command, receipt, claim, stripe>>,
         lease' \in [Commands -> [owner : Leases \cup {NoOne}, attempt : 0..MaxAttempts]],
         \A d \in Commands : lease'[d].owner # NoOne => lease[d].owner # NoOne \/ d = c
  PROVE  IInv'
<1> DEFINE pc == IF c = Creation THEN "start" ELSE "read"
           x == [Idle EXCEPT !.pc = pc, !.cmd = c, !.lease = l]
<1>1. TypeOK /\ Frozen /\ Bound
  BY DEF IInv
<1>2. x \in Memories /\ x.cmd = c /\ x.pc = pc
  BY DEF Memories, Idle, Receipts
<1>3. exec' = [exec EXCEPT ![e] = x]
  BY DEF Starts
<1> HIDE DEF x
<1>4. TypeOK'
  BY <1>1, <1>2, <1>3 DEF TypeOK
<1>5. FrozenStays /\ Frozen' /\ Bound'
  BY <1>1 DEF FrozenStays, Frozen, Bound, BindingIsClaimed, Queued
<1>6. \A d \in Commands : Effective(d)' => Effective(d)
  <2>1. exec'[e] = x /\ \A f \in Executions \ {e} : exec'[f] = exec[f]
    BY <1>1, <1>3 DEF TypeOK
  <2> QED BY <1>2, <2>1 DEF Effective, Reports, Fences
<1>7. org.revision \in Nat
  BY <1>1, Types
<1>8. org'.revision >= org.revision
  BY <1>7
<1>9. MovedPast' /\ OneEffect'
  BY <1>4, <1>5, <1>6, <1>8, NoEffect
<1>10. Remembers(x)'
  BY <1>2 DEF Remembers, Queued
<1>11. \A f \in Executions : Remembers(exec[f])'
  BY <1>3, <1>4, <1>10, ExecutionMoves
<1> QED BY <1>4, <1>5, <1>9, <1>11 DEF IInv

LEMMA LeaseStep ==
  ASSUME IInv, NEW e \in Executions, NEW c \in Commands,
         Reclaim(e, c) \/ \E l \in Leases : Claim(e, c, l)
  PROVE  IInv'
<1>1. TypeOK /\ Frozen
  BY DEF IInv
<1>2. lease[c] \in [owner : Leases \cup {NoOne}, attempt : 0..MaxAttempts]
  BY <1>1, Types
<1>3. CASE Reclaim(e, c)
  <2>1. Queued(c) /\ lease[c].owner \in Leases \cup {NoOne}
    BY <1>1, <1>2, <1>3 DEF Reclaim, Frozen
  <2>2. lease' = lease /\ lease \in [Commands -> [owner : Leases \cup {NoOne}, attempt : 0..MaxAttempts]]
    BY <1>1, <1>3 DEF Reclaim, TypeOK
  <2> QED BY <1>3, <2>1, <2>2, StartsStep DEF Reclaim
<1>4. ASSUME NEW l \in Leases, Claim(e, c, l)
      PROVE  IInv'
  <2>1. Queued(c) /\ NextAttempt(c) \in 0..MaxAttempts
    BY <1>2, <1>4, BoundsAssumption DEF Claim, Claimable, LeasesLeft, NextAttempt
  <2>2. lease' = [lease EXCEPT ![c] = [owner |-> l, attempt |-> NextAttempt(c)]]
    BY <1>4 DEF Claim
  <2>3. lease' \in [Commands -> [owner : Leases \cup {NoOne}, attempt : 0..MaxAttempts]]
    BY <1>1, <2>1, <2>2 DEF TypeOK
  <2>4. \A d \in Commands : lease'[d].owner # NoOne => lease[d].owner # NoOne \/ d = c
    BY <1>1, <2>2 DEF TypeOK
  <2> QED BY <1>4, <2>1, <2>3, <2>4, StartsStep DEF Claim
<1> QED BY <1>3, <1>4

LEMMA DeadLetterStep ==
  ASSUME IInv, NEW c \in Commands, DeadLetter(c)
  PROVE  IInv'
<1>1. TypeOK /\ Frozen /\ Bound
  BY DEF IInv
<1>2. UNCHANGED <<authority, org, command, lease, claim, stripe, exec>>
  BY DEF DeadLetter
<1>3. receipt' = [receipt EXCEPT ![c] = "dead_lettered"]
  BY DEF DeadLetter
<1>4. /\ receipt' \in [Commands -> Receipts]
      /\ \A d \in Commands : receipt'[d] \in {receipt[d], "dead_lettered"}
  BY <1>1, <1>3 DEF TypeOK, Receipts
<1>5. TypeOK'
  BY <1>1, <1>2, <1>4 DEF TypeOK
<1>6. FrozenStays /\ Frozen'
  BY <1>1, <1>2 DEF FrozenStays, Frozen, Queued
<1>7. Bound'
  BY <1>1, <1>2, <1>4 DEF Bound, BindingIsClaimed, Commands
<1>8. \A d \in Commands : Effective(d)' => Effective(d)
  BY <1>2, <1>4 DEF Effective, Reports, Fences
<1>9. org.revision \in Nat /\ stripe.version \in Nat
  BY <1>1, Types
<1>10. org'.revision >= org.revision /\ stripe'.version >= stripe.version
  BY <1>2, <1>9
<1>11. MovedPast' /\ OneEffect'
  BY <1>5, <1>6, <1>8, <1>10, NoEffect
<1>12. \A f \in Executions : Remembers(exec[f])'
  BY <1>2, <1>5, <1>6, <1>10, StillRemembers
<1> QED BY <1>5, <1>6, <1>7, <1>11, <1>12 DEF IInv

\* A receipt repeats what the execution reports.
LEMMA CompleteStep ==
  ASSUME IInv, NEW e \in Executions, Complete(e)
  PROVE  IInv'
<1> DEFINE c == exec[e].cmd
<1>1. TypeOK /\ Frozen /\ Bound
  BY DEF IInv
<1>2. UNCHANGED <<authority, org, command, claim, stripe>> /\ exec' = [exec EXCEPT ![e] = Idle]
  BY DEF Complete
<1>3. c \in Commands /\ exec[e].result \in Receipts /\ Reports(e, c)
  BY Memory DEF Complete, Memories, Reports
<1>4. \/ UNCHANGED <<receipt, lease>>
      \/ /\ receipt' = [receipt EXCEPT ![c] = exec[e].result]
         /\ lease' = [lease EXCEPT ![c].owner = NoOne]
  BY DEF Complete
<1>5. /\ receipt' \in [Commands -> Receipts]
      /\ \A d \in Commands : receipt'[d] = receipt[d] \/ (d = c /\ receipt'[d] = exec[e].result)
  BY <1>1, <1>3, <1>4 DEF TypeOK
<1>6. /\ lease' \in [Commands -> [owner : Leases \cup {NoOne}, attempt : 0..MaxAttempts]]
      /\ \A d \in Commands : lease'[d].owner # NoOne => lease[d].owner # NoOne
  <2>1. CASE lease' = lease
    BY <1>1, <2>1 DEF TypeOK
  <2>2. CASE lease' = [lease EXCEPT ![c].owner = NoOne]
    <3>1. lease' \in [Commands -> [owner : Leases \cup {NoOne}, attempt : 0..MaxAttempts]]
      BY <1>1, <2>2 DEF TypeOK
    <3>2. \A d \in Commands : lease'[d].owner # NoOne => lease[d].owner # NoOne
      BY <1>1, <2>2 DEF TypeOK
    <3> QED BY <3>1, <3>2
  <2> QED BY <1>4, <2>1, <2>2
<1>7. TypeOK'
  BY <1>1, <1>2, <1>5, <1>6, IdleFields DEF TypeOK
<1>8. FrozenStays /\ Frozen'
  BY <1>1, <1>2, <1>6 DEF FrozenStays, Frozen, Queued
<1>9. Bound'
  <2>1. c = Creation /\ exec[e].result = "succeeded" => org.bound
    BY Memory DEF Complete, Remembers
  <2> QED BY <1>1, <1>2, <1>5, <2>1 DEF Bound, BindingIsClaimed, Commands
<1>10. \A d \in Commands : Effective(d)' => Effective(d)
  <2>1. exec'[e] = Idle /\ \A f \in Executions \ {e} : exec'[f] = exec[f]
    BY <1>1, <1>2 DEF TypeOK
  <2> QED BY <1>2, <1>3, <1>5, <2>1, IdleFields DEF Effective, Reports, Fences
<1>11. org.revision \in Nat
  BY <1>1, Types
<1>12. org'.revision >= org.revision
  BY <1>2, <1>11
<1>13. MovedPast' /\ OneEffect'
  BY <1>7, <1>8, <1>10, <1>12, NoEffect
<1>14. Remembers(Idle)'
  BY IdleFields DEF Remembers
<1>15. \A f \in Executions : Remembers(exec[f])'
  BY <1>2, <1>7, <1>14, ExecutionMoves
<1> QED BY <1>7, <1>8, <1>9, <1>13, <1>15 DEF IInv

-----------------------------------------------------------------------------
(* Stripe and the outcomes.                                                 *)

LEMMA CreateAccountStep ==
  ASSUME IInv, NEW e \in Executions, CreateAccount(e)
  PROVE  IInv'
<1>1. TypeOK /\ Frozen /\ Bound
  BY DEF IInv
<1>2. UNCHANGED <<authority, org, command, lease, receipt, claim>>
  BY DEF CreateAccount
<1>3. exec[e].cmd = Creation /\ Creation \in Commands /\ Queued(Creation)
      /\ (stripe.remembers \/ stripe.accounts = 0)
  BY Memory DEF CreateAccount, Remembers
<1>4. stripe.accounts \in Nat /\ stripe.version \in Nat /\ org.revision \in Nat
  BY <1>1, Types
<1>5. /\ stripe' \in [accounts : Nat, remembers : BOOLEAN, version : Nat]
      /\ stripe'.version = stripe.version /\ stripe'.remembers /\ stripe'.accounts <= 1
  <2>1. CASE stripe.remembers
    BY <1>1, <1>4, <2>1, Types DEF CreateAccount, Bound
  <2>2. CASE ~stripe.remembers
    <3>1. stripe' = [stripe EXCEPT !.accounts = 1, !.remembers = TRUE]
      <4>1. stripe.accounts + 1 = 1
        BY <1>3, <2>2
      <4> QED BY <2>2, <4>1 DEF CreateAccount
    <3>2. stripe' \in [accounts : Nat, remembers : BOOLEAN, version : Nat]
      BY <1>1, <3>1, Types
    <3>3. stripe'.version = stripe.version /\ stripe'.remembers /\ stripe'.accounts = 1
      BY <1>1, <3>1, Types
    <3> QED BY <3>2, <3>3
  <2> QED BY <2>1, <2>2
<1>6. PICK x \in Memories : /\ exec' = [exec EXCEPT ![e] = x] /\ x.cmd = Creation
                            /\ x.pc \in {"commit", "quarantine"}
  <2>1. exec[e] \in Memories
    BY Memory
  <2>2. CASE Goes(e, "commit")
    <3> DEFINE x == [exec[e] EXCEPT !.pc = "commit"]
    <3>1. x \in Memories /\ x.pc = "commit" /\ x.cmd = Creation
      BY <1>3, <2>1 DEF Memories
    <3>2. exec' = [exec EXCEPT ![e] = x]
      BY <2>2 DEF Goes
    <3> QED BY <3>1, <3>2
  <2>3. CASE Fails(e, "failed_precondition", TRUE)
    <3> DEFINE x == [exec[e] EXCEPT !.pc = "quarantine", !.reason = "failed_precondition",
                                    !.evidence = TRUE]
    <3>1. x \in Memories /\ x.pc = "quarantine" /\ x.cmd = Creation
      BY <1>3, <2>1 DEF Memories, Reasons
    <3>2. exec' = [exec EXCEPT ![e] = x]
      BY <2>3 DEF Fails
    <3> QED BY <3>1, <3>2
  <2> QED BY <2>2, <2>3 DEF CreateAccount
<1>7. TypeOK'
  BY <1>1, <1>2, <1>5, <1>6 DEF TypeOK
<1>8. FrozenStays /\ Frozen'
  BY <1>1, <1>2 DEF FrozenStays, Frozen, Queued
<1>9. Bound'
  BY <1>1, <1>2, <1>5 DEF Bound, BindingIsClaimed
<1>10. \A d \in Commands : Effective(d)' => Effective(d)
  <2>1. exec'[e] = x /\ \A f \in Executions \ {e} : exec'[f] = exec[f]
    BY <1>1, <1>6 DEF TypeOK
  <2> QED BY <1>2, <1>6, <2>1 DEF Effective, Reports, Fences
<1>11. org'.revision >= org.revision
  BY <1>2, <1>4
<1>12. MovedPast' /\ OneEffect'
  BY <1>7, <1>8, <1>10, <1>11, NoEffect
<1>13. Remembers(x)'
  BY <1>2, <1>3, <1>5, <1>6 DEF Remembers, Queued
<1>14. \A f \in Executions : Remembers(exec[f])'
  BY <1>2, <1>5, <1>6, <1>7, <1>13, ExecutionMoves
<1> QED BY <1>7, <1>8, <1>9, <1>12, <1>14 DEF IInv

\* An outcome is committed at the frozen revision, and reported.
LEMMA OutcomeStep ==
  ASSUME IInv, NEW e \in Executions, NEW r \in {"succeeded", "quarantined"},
         exec[e].pc # "idle", Ends(e, r), Fences(exec[e].cmd, r),
         org.revision = command[exec[e].cmd].revision,
         org' \in Orgs, org'.revision = org.revision + 1, org'.bound = org.bound,
         org'.reserved = org.reserved, org'.lapsed = org.lapsed,
         org'.applied \in {org.applied, exec[e].cmd},
         org'.quarantine.of \in {org.quarantine.of, exec[e].cmd},
         org'.seen <= stripe.version, claim' \in {"none", "bound", "quarantined"},
         claim' = "bound" <=> claim = "bound",
         UNCHANGED <<authority, command, lease, receipt, stripe>>
  PROVE  IInv'
<1>0. PICK c : c = exec[e].cmd
  OBVIOUS
<1>1. TypeOK /\ Frozen /\ Bound
  BY DEF IInv
<1>2. c \in Commands /\ Queued(c) /\ exec[e] \in Memories
  BY <1>0, Memory
<1>3. PICK x \in Memories : /\ x.pc = "complete" /\ x.cmd = c /\ x.result = r
                            /\ exec' = [exec EXCEPT ![e] = x]
  <2> DEFINE x == [Idle EXCEPT !.pc = "complete", !.cmd = exec[e].cmd, !.lease = exec[e].lease,
                               !.result = r]
  <2>1. x \in Memories /\ x.pc = "complete" /\ x.cmd = exec[e].cmd /\ x.result = r
    BY <1>2 DEF Memories, Idle, Receipts
  <2>2. exec' = [exec EXCEPT ![e] = x]
    BY DEF Ends
  <2> HIDE DEF x
  <2> QED BY <1>0, <2>1, <2>2
<1>5. org.revision \in Nat /\ org'.revision \in Nat /\ org'.revision > org.revision
      /\ \A d \in Commands : command[d].revision \in Nat
  BY <1>1, Types
<1>6. TypeOK'
  BY <1>1, <1>3 DEF TypeOK
<1>7. Frozen'
  BY <1>1, <1>5 DEF Frozen, Queued
<1>8. Bound'
  BY <1>1 DEF Bound, BindingIsClaimed
<1>9. \A d \in Commands : Effective(d)' => Effective(d) \/ d = c
  <2>1. exec'[e] = x /\ \A f \in Executions \ {e} : exec'[f] = exec[f]
    BY <1>1, <1>3 DEF TypeOK
  <2> QED BY <1>0, <1>3, <2>1 DEF Effective, Reports, Fences
<1>10. MovedPast' /\ OneEffect'
  BY <1>0, <1>2, <1>5, <1>6, <1>9, NewEffect
<1>11. Remembers(x)'
  <2>1. ~(c = Creation /\ r = "succeeded")
    BY <1>0 DEF Fences
  <2> QED BY <1>2, <1>3, <2>1 DEF Remembers, Queued
<1>12. \A f \in Executions : Remembers(exec[f])'
  <2>1. /\ stripe'.version = stripe.version /\ command' = command /\ (org.bound => org'.bound)
        /\ stripe.remembers \/ stripe.accounts = 0 => stripe'.remembers \/ stripe'.accounts = 0
    OBVIOUS
  <2> QED BY <1>3, <1>5, <1>6, <1>11, <2>1, ExecutionMoves
<1> QED BY <1>6, <1>7, <1>8, <1>10, <1>12 DEF IInv

\* What an execution may give as a reason.
Given == Reasons \cup {""}

LEMMA ReviewStep ==
  ASSUME IInv, NEW e \in Executions, exec[e].pc # "idle", NEW reason \in Given,
         NEW evidence \in BOOLEAN, Review(exec[e].cmd, reason, evidence),
         org.revision = command[exec[e].cmd].revision, Ends(e, "quarantined"),
         UNCHANGED <<authority, command, lease, receipt, stripe>>
  PROVE  IInv'
<1>1. TypeOK /\ Bound
  BY DEF IInv
<1>2. org \in Orgs /\ org.revision \in Nat /\ exec[e].cmd \in Commands
  BY <1>1, Types, Memory
<1>3. org' \in Orgs
  <2>1. PICK n \in Nat : n = org.revision + 1
    BY <1>2
  <2>2. PICK q \in [of : Commands \cup {NoOne}, reason : Given] :
          q = [of |-> exec[e].cmd, reason |-> reason]
    BY <1>2
  <2>3. org' = [org EXCEPT !.revision = n, !.state = "security_review", !.quarantine = q]
    BY <2>1, <2>2 DEF Review
  <2>4. "security_review" \in States
    BY DEF States
  <2> QED BY <1>2, <2>1, <2>2, <2>3, <2>4 DEF Orgs, Given
<1>4. /\ org'.revision = org.revision + 1 /\ org'.bound = org.bound
      /\ org'.reserved = org.reserved /\ org'.lapsed = org.lapsed
      /\ org'.applied = org.applied /\ org'.seen = org.seen
      /\ org'.quarantine = [of |-> exec[e].cmd, reason |-> reason]
  BY <1>2 DEF Review, Orgs
<1>5. claim' \in {"none", "bound", "quarantined"} /\ (claim' = "bound" <=> claim = "bound")
  BY <1>1 DEF Review, ClaimUnderReview, TypeOK
<1>6. Fences(exec[e].cmd, "quarantined") /\ org'.seen <= stripe.version
      /\ org'.quarantine.of \in {org.quarantine.of, exec[e].cmd}
  BY <1>1, <1>4 DEF Fences, Bound
<1> QED BY <1>3, <1>4, <1>5, <1>6, OutcomeStep

LEMMA BindStep ==
  ASSUME IInv, NEW e \in Executions, exec[e].pc = "commit", Ends(e, "succeeded"),
         org' = [org EXCEPT !.state = "onboarding", !.bound = TRUE, !.reserved = 0],
         claim' = "bound", UNCHANGED <<authority, command, lease, receipt, stripe>>
  PROVE  IInv'
<1>1. TypeOK /\ Frozen /\ Bound
  BY DEF IInv
<1>2. exec[e].cmd = Creation /\ Creation \in Commands /\ Queued(Creation) /\ exec[e] \in Memories
  BY Memory DEF Remembers
<1>3. PICK x \in Memories : /\ x.pc = "complete" /\ x.cmd = Creation /\ x.result = "succeeded"
                            /\ exec' = [exec EXCEPT ![e] = x]
  <2> DEFINE x == [Idle EXCEPT !.pc = "complete", !.cmd = exec[e].cmd, !.lease = exec[e].lease,
                               !.result = "succeeded"]
  <2>1. x \in Memories /\ x.pc = "complete" /\ x.cmd = exec[e].cmd /\ x.result = "succeeded"
    BY <1>2 DEF Memories, Idle, Receipts
  <2>2. exec' = [exec EXCEPT ![e] = x]
    BY DEF Ends
  <2> HIDE DEF x
  <2> QED BY <1>2, <2>1, <2>2
<1>4. org \in Orgs /\ org.revision \in Nat
  BY <1>1, Types
<1>5. org' \in Orgs
  BY <1>4 DEF Orgs, States
<1>6. /\ org'.revision = org.revision /\ org'.bound = TRUE /\ org'.reserved = 0
      /\ org'.lapsed = org.lapsed /\ org'.applied = org.applied /\ org'.seen = org.seen
      /\ org'.quarantine = org.quarantine
  BY <1>4 DEF Orgs
<1>7. TypeOK'
  BY <1>1, <1>3, <1>5 DEF TypeOK
<1>8. FrozenStays /\ Frozen'
  BY <1>1, <1>6 DEF FrozenStays, Frozen, Queued
<1>9. Bound'
  BY <1>1, <1>6 DEF Bound, BindingIsClaimed
<1>10. \A d \in Commands : Effective(d)' => Effective(d)
  <2>1. exec'[e] = x /\ \A f \in Executions \ {e} : exec'[f] = exec[f]
    BY <1>1, <1>3 DEF TypeOK
  <2> QED BY <1>3, <1>6, <2>1 DEF Effective, Reports, Fences
<1>11. org'.revision >= org.revision
  BY <1>4, <1>6
<1>12. MovedPast' /\ OneEffect'
  BY <1>7, <1>8, <1>10, <1>11, NoEffect
<1>13. Remembers(x)'
  BY <1>2, <1>3, <1>6 DEF Remembers, Queued
<1>14. \A f \in Executions : Remembers(exec[f])'
  <2>1. /\ stripe'.version = stripe.version /\ command' = command /\ (org.bound => org'.bound)
        /\ stripe.remembers \/ stripe.accounts = 0 => stripe'.remembers \/ stripe'.accounts = 0
    BY <1>6
  <2> QED BY <1>3, <1>6, <1>7, <1>13, <2>1, ExecutionMoves
<1> QED BY <1>7, <1>8, <1>9, <1>12, <1>14 DEF IInv

LEMMA CommitStep ==
  ASSUME IInv, NEW e \in Executions, Commit(e) \/ Quarantine(e)
  PROVE  IInv'
<1> DEFINE c == exec[e].cmd
<1>1. exec[e].pc # "idle" /\ UNCHANGED <<authority, command, lease, receipt, stripe>>
  BY DEF Commit, Quarantine
<1>2. "succeeded" \in Receipts /\ "quarantined" \in Receipts /\ "authority_changed" \in Reasons
  BY DEF Receipts, Reasons
<1>3. CASE Commit(e)
  <2>1. c = Creation
    BY <1>3, Memory DEF Commit, Remembers
  <2>2. CASE org.bound /\ Ends(e, "succeeded") /\ UNCHANGED <<org, claim>>
    BY <1>1, <1>2, <2>1, <2>2, EndsStep DEF Fences, Others
  <2>3. CASE Throws(e) /\ UNCHANGED <<org, claim>>
    BY <1>1, <2>3, ThrowsStep DEF Others
  <2>4. CASE Current(c) /\ Review(c, "authority_changed", TRUE) /\ Ends(e, "quarantined")
    BY <1>1, <1>2, <2>4, ReviewStep DEF Current, Given
  <2>5. CASE /\ org' = [org EXCEPT !.state = "onboarding", !.bound = TRUE, !.reserved = 0]
             /\ claim' = "bound" /\ Ends(e, "succeeded")
    BY <1>1, <1>3, <2>5, BindStep DEF Commit
  <2> QED BY <1>3, <2>2, <2>3, <2>4, <2>5 DEF Commit
<1>4. CASE Quarantine(e)
  <2>1. CASE org.quarantine.of = c /\ Ends(e, "quarantined") /\ UNCHANGED <<org, claim>>
    <3>1. Effective(c)
      BY <2>1 DEF Effective
    <3> QED BY <1>1, <1>2, <2>1, <3>1, EndsStep DEF Others
  <2>2. CASE Throws(e) /\ UNCHANGED <<org, claim>>
    BY <1>1, <2>2, ThrowsStep DEF Others
  <2>3. CASE /\ Fenced(c) /\ Review(c, exec[e].reason, exec[e].evidence)
             /\ Ends(e, "quarantined")
    <3>1. exec[e].reason \in Given /\ exec[e].evidence \in BOOLEAN
      BY Memory DEF Memories, Given
    <3> QED BY <1>1, <2>3, <3>1, ReviewStep DEF Fenced
  <2> QED BY <1>4, <2>1, <2>2, <2>3 DEF Quarantine
<1> QED BY <1>3, <1>4

LEMMA ApplyStep ==
  ASSUME IInv, NEW e \in Executions, Apply(e)
  PROVE  IInv'
<1> DEFINE c == exec[e].cmd
<1>1. exec[e].pc = "apply" /\ UNCHANGED <<authority, command, lease, receipt, claim, stripe>>
  BY DEF Apply
<1>2. /\ "succeeded" \in Receipts /\ c \in Refreshes /\ c \in Commands /\ Fences(c, "succeeded")
      /\ exec[e].seen \in Nat /\ exec[e].seen <= stripe.version
  BY <1>1, Memory DEF Receipts, Remembers, Commands, Fences, Memories
<1>3. CASE org.applied = c /\ Ends(e, "succeeded") /\ UNCHANGED org
  <2>1. Effective(c) /\ c # Creation
    BY <1>2, <1>3 DEF Effective, Fences
  <2> QED BY <1>1, <1>2, <1>3, <2>1, EndsStep DEF Others
<1>4. CASE Throws(e) /\ UNCHANGED org
  BY <1>1, <1>4, ThrowsStep DEF Others
<1>5. CASE Fenced(c) /\ org' = Observed(c, exec[e].seen) /\ Ends(e, "succeeded")
  <2>1. TypeOK /\ Bound
    BY DEF IInv
  <2>2. org \in Orgs /\ org.revision \in Nat
    BY <2>1, Types
  <2>3. org' \in Orgs
    <3>1. PICK n \in Nat : n = org.revision + 1
      BY <2>2
    <3>2. org' = [org EXCEPT !.revision = n, !.applied = c, !.seen = exec[e].seen,
                             !.state = "observed"]
      BY <1>5, <3>1 DEF Observed
    <3>3. "observed" \in States
      BY DEF States
    <3> QED BY <1>2, <2>2, <3>2, <3>3 DEF Orgs
  <2>4. /\ org'.revision = org.revision + 1 /\ org'.bound = org.bound
        /\ org'.reserved = org.reserved /\ org'.lapsed = org.lapsed
        /\ org'.applied = c /\ org'.seen = exec[e].seen
        /\ org'.quarantine = org.quarantine
    BY <1>5, <2>2 DEF Observed, Orgs
  <2>5. /\ claim' \in {"none", "bound", "quarantined"} /\ (claim' = "bound" <=> claim = "bound")
        /\ exec[e].pc # "idle" /\ org.revision = command[c].revision
        /\ org'.seen <= stripe.version
    BY <1>1, <1>2, <1>5, <2>1, <2>4 DEF TypeOK, Fenced
  <2> QED BY <1>1, <1>2, <1>5, <2>3, <2>4, <2>5, OutcomeStep
<1> QED BY <1>3, <1>4, <1>5 DEF Apply

LEMMA ConnectStep == IInv /\ [Next]_vars => IInv'
<1> SUFFICES ASSUME IInv, [Next]_vars PROVE IInv'
  OBVIOUS
<1>1. CASE UNCHANGED vars
  <2>1. \A c \in Commands : Effective(c)' => Effective(c)
    BY <1>1, EffectiveSame DEF vars
  <2>2. UNCHANGED <<authority, org, command, lease, receipt, claim, stripe, exec>>
    BY <1>1 DEF vars
  <2>3. TypeOK' /\ Frozen' /\ FrozenStays
    BY <2>2 DEF IInv, TypeOK, Frozen, FrozenStays, Queued
  <2>4. org.revision \in Nat /\ stripe.version \in Nat
    BY Types DEF IInv
  <2>5. org'.revision >= org.revision /\ stripe'.version >= stripe.version
    BY <2>2, <2>4
  <2> QED BY <2>2, <2>3, <2>5, EnvironmentFrom
<1>2. CASE \/ \E rev \in 1..MaxAuthority : ApplyProjection(rev)
           \/ AuthorityExpires
  BY <1>2, AuthorityStep
<1>3. CASE WindowCloses \/ AccountChanges \/ \E c \in Commands : LeaseExpires(c)
  BY <1>3, ClockStep
<1>4. CASE KeyForgotten
  BY <1>4, KeyStep
<1>5. CASE \E a \in 1..authority.rev : Reserve(a)
  BY <1>5, ReserveStep
<1>6. CASE Begin \/ \E k \in Refreshes, a \in 1..authority.rev : Refresh(k, a)
  BY <1>6, FreezeStep
<1>7. CASE \E c \in Commands : DeadLetter(c)
  BY <1>7, DeadLetterStep
<1>8. CASE \E e \in Executions, c \in Commands : Reclaim(e, c) \/ \E l \in Leases : Claim(e, c, l)
  BY <1>8, LeaseStep
<1>9. CASE \E e \in Executions : ExecutionStep(e)
  BY <1>9, FirstSteps, NextSteps, CreateAccountStep, CommitStep, ApplyStep, CompleteStep
     DEF ExecutionStep
<1> QED BY <1>1, <1>2, <1>3, <1>4, <1>5, <1>6, <1>7, <1>8, <1>9 DEF Next

LEMMA ConnectInvariant == Spec => []IInv
  BY ConnectInit, ConnectStep, PTL DEF Spec

-----------------------------------------------------------------------------
(* The theorems.                                                            *)

\* The documents, the provider and the executions keep their types.
THEOREM ConnectTypeCorrect == Spec => []TypeOK
<1>1. IInv => TypeOK
  BY DEF IInv
<1> QED BY <1>1, ConnectInvariant, PTL

\* One account at Stripe, however many executions overlap and die
\* (connectProviderCommandExecutor.js executeCreateMerchantAccount).
THEOREM ConnectOneAccount == Spec => []OneAccount
<1>1. IInv => OneAccount
  BY DEF IInv, Bound, OneAccount
<1> QED BY <1>1, ConnectInvariant, PTL

\* The binding and the claim on the account agree (connectControlRepository.js
\* completeOnboarding, quarantineProviderOperation).
THEOREM ConnectBinding == Spec => []BindingIsClaimed
<1>1. IInv => BindingIsClaimed
  BY DEF IInv, Bound
<1> QED BY <1>1, ConnectInvariant, PTL

\* A receipt is written only for a committed outcome (connectCommandWorker.js).
THEOREM ConnectReceipts == Spec => []ReceiptsAreEarned
<1>1. IInv => ReceiptsAreEarned
  BY DEF IInv, Bound, MovedPast, Effective, Fences, ReceiptsAreEarned
<1> QED BY <1>1, ConnectInvariant, PTL

\* One refresh takes effect at a revision (connectControlRepository.js refreshStatus).
THEOREM ConnectEffects == Spec => []EffectsAreFenced
<1>1. IInv => EffectsAreFenced
  BY CommandsAssumption DEF IInv, OneEffect, Effective, Fences, EffectsAreFenced
<1> QED BY <1>1, ConnectInvariant, PTL

\* Only an execution that applies its observation changes what was seen, and
\* at the revision of its command nothing newer was seen.
LEMMA SeenStep == IInv /\ [Next]_vars => org'.seen >= org.seen
<1> SUFFICES ASSUME IInv, [Next]_vars PROVE org'.seen >= org.seen
  OBVIOUS
<1>1. org.seen \in Nat /\ org \in Orgs
  BY Types DEF IInv
<1>2. CASE UNCHANGED org
  BY <1>1, <1>2
<1>3. ASSUME NEW a \in 1..authority.rev, Reserve(a) PROVE org'.seen = org.seen
  BY <1>1, <1>3 DEF Reserve, Orgs
<1>4. CASE WindowCloses
  <2>1. org'.seen = org.seen
    BY <1>1, <1>4 DEF WindowCloses, Orgs
  <2> QED BY <1>1, <2>1
<1>5. ASSUME NEW e \in Executions, ExecutionStep(e), ~UNCHANGED org PROVE org'.seen >= org.seen
  <2>1. CASE Apply(e)
    <3>1. exec[e].seen >= org.seen /\ org' = Observed(exec[e].cmd, exec[e].seen)
      BY <1>5, <2>1, Memory DEF Apply, Fenced, Remembers
    <3>2. org'.seen = exec[e].seen
      BY <1>1, <3>1 DEF Observed, Orgs
    <3> QED BY <3>1, <3>2
  <2>2. ASSUME NEW c, NEW reason, NEW evidence, Review(c, reason, evidence)
        PROVE  org'.seen = org.seen
    BY <1>1, <2>2 DEF Review, Orgs
  <2>3. CASE Commit(e)
    <3>1. CASE org' = [org EXCEPT !.state = "onboarding", !.bound = TRUE, !.reserved = 0]
      <4>1. org'.seen = org.seen
        BY <1>1, <3>1 DEF Orgs
      <4> QED BY <1>1, <4>1
    <3>2. CASE Review(exec[e].cmd, "authority_changed", TRUE)
      <4>1. org'.seen = org.seen
        BY <2>2, <3>2
      <4> QED BY <1>1, <4>1
    <3> QED BY <1>5, <2>3, <3>1, <3>2 DEF Commit
  <2>4. CASE Quarantine(e)
    <3>1. org'.seen = org.seen
      BY <1>5, <2>2, <2>4 DEF Quarantine
    <3> QED BY <1>1, <3>1
  <2> QED BY <1>5, <2>1, <2>3, <2>4 DEF ExecutionStep, FindReceipt, ReadStatus, Authorize,
             Refused, CreateAccount, Retrieve, Confirm, Complete, Die
<1> QED BY <1>1, <1>2, <1>3, <1>4, <1>5 DEF Next, ApplyProjection, AuthorityExpires, KeyForgotten,
           AccountChanges, Refresh, Begin, LeaseExpires, DeadLetter, Reclaim, Claim, vars

\* A slow execution never puts an older observation over a newer one
\* (connectControlRepository.js refreshStatus).
THEOREM ConnectObservations == Spec => ObservationsAdvance
<1>1. IInv /\ [Next]_vars => [org'.seen >= org.seen]_vars
  BY SeenStep
<1> QED BY <1>1, ConnectInvariant, PTL DEF Spec, ObservationsAdvance

=============================================================================
