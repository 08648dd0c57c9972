------------------------ MODULE SignerRotationProofs ------------------------
(***************************************************************************)
(* A rotation of the signing key keeps to its order on every member, for   *)
(* any number of members, verifiers, requests and faults: local trust      *)
(* never runs ahead of the group or of its own retirement interval, who is *)
(* counted as covered is, and a lease that reaches its caller was signed by *)
(* the generation current at its release barrier.                          *)
(***************************************************************************)
EXTENDS SignerRotation, FiniteSetTheorems, TLAPS

Statuses == [phase : {"Completed", "Rejected"}, epoch : Nat]

States ==
    [active : 1 .. 2, staged : BOOLEAN, retirement : BOOLEAN,
     roster : SUBSET Verifiers, enrolled : SUBSET Verifiers, referenced : SUBSET Others,
     epoch : Nat, term : Nat, leader : Members,
     ops : UNION {[D -> Statuses] : D \in SUBSET Ops},
     dispatch : [Members -> Ops \cup {None}],
     marker : [Members -> BOOLEAN], ack : [Members -> BOOLEAN]]

OpCommands == [type : {"AuthorizeSignerTrust", "Begin", "Acknowledge"}, op : Ops]

Entries == [cmd : Globals \cup OpCommands, epoch : Nat, fresh : BOOLEAN]

TrustRecords ==
    [staged : Ops \cup {None}, active : 1 .. 2, retirement : Ops \cup {None},
     receipts : SUBSET Ops]

LiveRecords == [closed : BOOLEAN, witness : Witnesses \cup {None}]

Invocations ==
    [op : Ops, phase : {"permit", "wait", "apply", "commit", "reply"}, term : Nat, epoch : Nat]

Seen == [staged : BOOLEAN, active : 1 .. 2]

LeaseRequests ==
    [node : Members, gen : 1 .. 2,
     phase : {"captured", "viewed", "signed", "fenced", "released"},
     term : Nat, seen : Seen \cup {None}]

\* The shape of every variable.
Shapes ==
    /\ meta \in States
    /\ view \in [Members -> States \cup {None}]
    /\ proposals \subseteq Entries
    /\ trust \in [Members -> TrustRecords]
    /\ live \in [Members -> LiveRecords]
    /\ truth \in [Members -> 0 .. RetirementDrain]
    /\ slot \in [Members -> 1 .. 2]
    /\ inv \in [Members -> Invocations \cup {None}]
    /\ observed \in [Members -> Ops \cup {None}]
    /\ request \in [Requests -> LeaseRequests \cup {None}]
    /\ faults \in 0 .. MaxFaults

\* The head moves once: from no successor to a staged one to a retiring one.
HeadOrdered(m) == (m.active = 2 <=> m.retirement) /\ ~(m.staged /\ m.retirement)

\* Head m has moved at least as far as head s.
Reached(s, m) == (s.staged => Frozen(m)) /\ (s.active = 2 => m.active = 2)

\* What a deposed leader goes by is something the group had reached.
ViewsBehind ==
    /\ HeadOrdered(meta)
    /\ \A n \in Members :
         view[n] # None => HeadOrdered(view[n]) /\ Reached(view[n], meta)

\* Member v has activated the successor under operation op.
Activated(v, op) == trust[v].active = 2 /\ op \in trust[v].receipts

\* Each dispatch is for its own member, and everything that speaks of a member's
\* activation, on its way to an acknowledgement, tells the truth.
CoverageBacked ==
    /\ \A v \in Members :
         /\ meta.dispatch[v] # None => meta.dispatch[v].v = v
         /\ observed[v] # None => observed[v].v = v /\ Activated(v, observed[v])
         /\ meta.ack[v] => Activated(v, meta.dispatch[v])
    /\ \A p \in proposals :
         p.cmd.type = "Acknowledge" => Activated(p.cmd.op.v, p.cmd.op)

\* A member's durable record and its live owner: the witness of a retirement
\* never shows more than the time that has really passed.
TrustOrdered(n) ==
    /\ trust[n].staged # None => Frozen(meta) /\ trust[n].retirement = None
    /\ trust[n].active = 2 => meta.active = 2
    /\ slot[n] <= trust[n].active
    /\ trust[n].active = 2 /\ trust[n].retirement = None => truth[n] = RetirementDrain
    /\ ~live[n].closed => ((live[n].witness = None) <=> (trust[n].retirement = None))
    /\ live[n].witness # None =>
          live[n].witness.age <= truth[n] \/ truth[n] = RetirementDrain

\* What an invocation has established by the phase it is in.
InvocationBacked(n) ==
    /\ inv[n] # None => inv[n].op.v = n
    /\ \A op \in trust[n].receipts : op.v = n
    /\ inv[n] # None /\ inv[n].phase = "reply" => inv[n].op \in trust[n].receipts
    /\ inv[n] # None /\ inv[n].phase = "commit" =>
          /\ Matches(trust[n], inv[n].op)
          /\ inv[n].op.kind = "CompleteRetirement" => truth[n] = RetirementDrain

\* A lease's generation was current when its signer was captured, and the head
\* its release barrier saw is behind what its node goes by.
RequestBacked(r) ==
    request[r] # None =>
      /\ request[r].gen = 2 => meta.active = 2
      /\ request[r].phase \in {"fenced", "released"} =>
           /\ request[r].seen \in Seen
           /\ request[r].gen = 2 => request[r].seen.active = 2
           /\ request[r].seen.active = 2 => ~request[r].seen.staged
           /\ Reached(request[r].seen, View(request[r].node))
      /\ request[r].phase = "released" =>
           request[r].seen = [staged |-> FALSE, active |-> request[r].gen]

\* Members that a fault has marked: closed, or with a witness that ran backwards.
Marred(l) ==
    {n \in Members : \/ l[n].closed
                     \/ l[n].witness # None /\ l[n].witness.age < l[n].witness.last}

\* Every election but MaxTerm ones, and every marred member, costs a fault of its
\* own; proposals stay within their bound.
Bounded ==
    /\ IsFiniteSet(proposals) /\ Cardinality(proposals) <= MaxPending
    /\ meta.epoch \in 1 .. MaxEpoch /\ meta.term >= 1
    /\ Cardinality(Marred(live)) <= faults
    /\ meta.term + Cardinality(Marred(live)) <= MaxTerm + faults

RotationInv ==
    /\ Shapes
    /\ ViewsBehind
    /\ RosterCovers
    /\ meta.roster \subseteq meta.enrolled
    /\ CoverageBacked
    /\ \A n \in Members : TrustOrdered(n) /\ InvocationBacked(n)
    /\ \A r \in Requests : RequestBacked(r)
    /\ Bounded

----------------------------------------------------------------------------
(* Heads *)

\* A head has reached itself.
LEMMA ReachesItself == ASSUME NEW m, HeadOrdered(m) PROVE Reached(m, m)
BY DEF Reached, Frozen

\* What a head has reached, every later head has.
LEMMA ReachedOn ==
    ASSUME NEW a, NEW b, NEW c, HeadOrdered(b), HeadOrdered(c), Reached(a, b), Reached(b, c)
    PROVE  Reached(a, c)
BY DEF HeadOrdered, Reached, Frozen

\* What a member goes by is an ordered head that the group has reached.
LEMMA ViewReached ==
    ASSUME RotationInv, NEW n \in Members
    PROVE  View(n) \in States /\ HeadOrdered(View(n)) /\ Reached(View(n), meta)
BY ReachesItself DEF RotationInv, Shapes, ViewsBehind, View

----------------------------------------------------------------------------
(* What is kept where nothing it speaks of changes *)

\* The group's committed state and its members' views.
LEMMA QuietGroup ==
    ASSUME RotationInv, UNCHANGED <<meta, view>>
    PROVE  /\ meta' \in States /\ view' \in [Members -> States \cup {None}]
           /\ ViewsBehind' /\ RosterCovers' /\ (meta.roster \subseteq meta.enrolled)'
BY DEF RotationInv, Shapes, ViewsBehind, RosterCovers, HeadOrdered, Reached, Frozen,
       RosterComplete

\* The members' trust.
LEMMA QuietTrust ==
    ASSUME RotationInv, UNCHANGED <<meta, trust, live, truth, slot>>
    PROVE  /\ trust' \in [Members -> TrustRecords] /\ live' \in [Members -> LiveRecords]
           /\ truth' \in [Members -> 0 .. RetirementDrain] /\ slot' \in [Members -> 1 .. 2]
           /\ \A n \in Members : TrustOrdered(n)'
BY DEF RotationInv, Shapes, TrustOrdered, Frozen

\* Their invocations.
LEMMA QuietInvocations ==
    ASSUME RotationInv, UNCHANGED <<trust, truth, inv>>
    PROVE  /\ inv' \in [Members -> Invocations \cup {None}]
           /\ \A n \in Members : InvocationBacked(n)'
BY DEF RotationInv, Shapes, InvocationBacked, Matches, Revision

\* The leases.
LEMMA QuietRequests ==
    ASSUME RotationInv, UNCHANGED <<meta, view, request>>
    PROVE  /\ request' \in [Requests -> LeaseRequests \cup {None}]
           /\ \A r \in Requests : RequestBacked(r)'
BY DEF RotationInv, Shapes, RequestBacked, View, Reached, Frozen

\* The coverage.
LEMMA QuietCoverage ==
    ASSUME RotationInv, UNCHANGED <<meta, trust, observed, proposals>>
    PROVE  CoverageBacked' /\ observed' \in [Members -> Ops \cup {None}]
                           /\ proposals' \subseteq Entries
BY DEF RotationInv, Shapes, CoverageBacked, Activated

----------------------------------------------------------------------------
(* The log *)

\* An entry is proposed only while there is room, and is the only new one.
LEMMA ProposeView ==
    ASSUME RotationInv, NEW cmd \in Globals \cup OpCommands, Propose(cmd)
    PROVE  /\ proposals' \subseteq Entries
           /\ IsFiniteSet(proposals') /\ Cardinality(proposals') <= MaxPending
           /\ \A p \in proposals' : p \in proposals \/ p.cmd = cmd
<1> DEFINE e == [cmd |-> cmd, epoch |-> meta.epoch, fresh |-> TRUE]
<1>1. e \in Entries
  BY DEF RotationInv, Shapes, States, Entries
<1>2. proposals' = proposals \cup {e} /\ Cardinality(proposals) < MaxPending
  BY DEF Propose
<1>3. e.cmd = cmd
  OBVIOUS
<1> HIDE DEF e
<1>4. IsFiniteSet(proposals) /\ Cardinality(proposals) \in Nat /\ MaxPending \in Nat
  BY RotationAssumption, FS_CardinalityType DEF RotationInv, Bounded
<1>5. /\ IsFiniteSet(proposals')
      /\ Cardinality(proposals') \in {Cardinality(proposals), Cardinality(proposals) + 1}
  BY <1>2, <1>4, FS_AddElement
<1> QED
  BY <1>1, <1>2, <1>3, <1>4, <1>5 DEF RotationInv, Shapes

\* Applying an entry takes it out and ends the freshness of the others.
LEMMA StaleView ==
    ASSUME RotationInv, NEW p \in proposals
    PROVE  /\ Stale(p) \subseteq Entries
           /\ IsFiniteSet(Stale(p)) /\ Cardinality(Stale(p)) <= MaxPending
           /\ \A s \in Stale(p) : \E q \in proposals : s.cmd = q.cmd
<1> DEFINE R == proposals \ {p}
           f == [q \in R |-> [q EXCEPT !.fresh = FALSE]]
<1>1. \A q \in R : q \in Entries /\ f[q] \in Entries /\ f[q].cmd = q.cmd
  BY DEF RotationInv, Shapes, Entries
<1>2. Stale(p) = {f[q] : q \in R}
  BY DEF Stale
<1>3. f \in Surjection(R, Stale(p))
  BY <1>2 DEF Surjection
<1>4. /\ IsFiniteSet(R) /\ Cardinality(R) \in Nat /\ Cardinality(R) <= Cardinality(proposals)
      /\ Cardinality(proposals) \in Nat
  BY FS_Subset, FS_CardinalityType DEF RotationInv, Bounded
<1> HIDE DEF f, R
<1>5. IsFiniteSet(Stale(p)) /\ Cardinality(Stale(p)) <= Cardinality(R)
  BY <1>3, <1>4, FS_Surjection
<1>6. Cardinality(Stale(p)) \in Nat /\ MaxPending \in Nat
  BY <1>5, FS_CardinalityType, RotationAssumption
<1>7. Cardinality(Stale(p)) <= MaxPending
  BY <1>4, <1>5, <1>6 DEF RotationInv, Bounded
<1>8. \A s \in Stale(p) : s \in Entries /\ \E q \in proposals : s.cmd = q.cmd
  BY <1>1, <1>2 DEF R
<1> QED
  BY <1>5, <1>7, <1>8

\* An entry that leaves the log.
LEMMA RemoveView ==
    ASSUME RotationInv, NEW p
    PROVE  /\ proposals \ {p} \subseteq Entries
           /\ IsFiniteSet(proposals \ {p}) /\ Cardinality(proposals \ {p}) <= MaxPending
<1>1. /\ IsFiniteSet(proposals \ {p}) /\ Cardinality(proposals \ {p}) <= Cardinality(proposals)
      /\ Cardinality(proposals \ {p}) \in Nat /\ Cardinality(proposals) \in Nat
  BY FS_Subset, FS_CardinalityType DEF RotationInv, Bounded
<1> QED
  BY <1>1, RotationAssumption DEF RotationInv, Bounded, Shapes

\* The bounds, where neither the term nor a member's owner moves.
LEMMA QuietBounds ==
    ASSUME RotationInv, meta'.term = meta.term,
           meta'.epoch \in 1 .. MaxEpoch, UNCHANGED live,
           IsFiniteSet(proposals'), Cardinality(proposals') <= MaxPending,
           faults' \in 0 .. MaxFaults, faults <= faults'
    PROVE  Bounded'
<1>1. IsFiniteSet(Marred(live))
  BY RotationAssumption, FS_Subset DEF Marred
<1>2. Cardinality(Marred(live)) \in Nat
  BY <1>1, FS_CardinalityType
<1>3. meta.term \in Nat /\ faults \in Nat /\ MaxTerm \in Nat /\ faults' \in Nat
  BY RotationAssumption DEF RotationInv, Shapes, States
<1>4. Marred(live') = Marred(live)
  BY DEF Marred
<1> HIDE DEF Marred
<1> QED
  BY <1>2, <1>3, <1>4 DEF RotationInv, Bounded

----------------------------------------------------------------------------
(* Steps of the group *)

\* The group's head may move on, and a member may be deposed or catch up,
\* whatever leases are on their way.
LEMMA GroupMoves ==
    ASSUME RotationInv, meta' \in States, HeadOrdered(meta'), Reached(meta, meta'),
           \A n \in Members : view'[n] \in {view[n], None, meta},
           \A r \in Requests : request'[r] \in {request[r], None}
    PROVE  ViewsBehind' /\ \A r \in Requests : RequestBacked(r)'
<1>1. HeadOrdered(meta) /\ Reached(meta, meta)
  BY ReachesItself DEF RotationInv, ViewsBehind
<1>2. ASSUME NEW n \in Members, view'[n] # None
      PROVE  HeadOrdered(view'[n]) /\ Reached(view'[n], meta')
  <2>1. CASE view'[n] = view[n]
    BY <1>1, <1>2, <2>1, ReachedOn DEF RotationInv, ViewsBehind
  <2>2. CASE view'[n] = meta
    BY <1>1, <2>2
  <2> QED
    BY <1>2, <2>1, <2>2
<1>3. ViewsBehind'
  BY <1>2 DEF ViewsBehind, HeadOrdered, Reached, Frozen
<1>4. ASSUME NEW r \in Requests PROVE RequestBacked(r)'
  <2>1. CASE request'[r] = None
    BY <2>1 DEF RequestBacked
  <2>2. CASE request'[r] = request[r] /\ request[r] # None
    <3> DEFINE n == request[r].node
               s == request[r].seen
               v == IF view'[n] = None THEN meta' ELSE view'[n]
    <3>1. n \in Members /\ RequestBacked(r)
      BY <2>2 DEF RotationInv, Shapes, LeaseRequests
    <3>2. HeadOrdered(View(n)) /\ Reached(View(n), meta) /\ Reached(View(n), meta')
      BY <1>1, <3>1, ViewReached, ReachedOn
    <3> HIDE DEF n
    <3>3. HeadOrdered(v) /\ Reached(View(n), v)
      <4>1. CASE view'[n] = None
        BY <3>2, <4>1
      <4>2. CASE view'[n] # None /\ view'[n] = view[n]
        BY <3>2, <4>2, ReachesItself DEF View
      <4>3. CASE view'[n] # None /\ view'[n] = meta
        BY <1>1, <3>2, <4>3
      <4> QED
        BY <3>1, <4>1, <4>2, <4>3
    <3>4. Reached(s, View(n)) => Reached(s, v)
      BY <3>2, <3>3, ReachedOn
    <3>5. v = View(n)'
      BY <2>2 DEF View, n
    <3>6. (request[r].phase \in {"fenced", "released"}) => Reached(request[r].seen, v)
      BY <2>2, <3>1, <3>4 DEF RequestBacked, n, s
    <3>7. request[r].gen = 2 => meta'.active = 2
      BY <2>2, <3>1 DEF RequestBacked, Reached
    <3>8. v = View(request[r].node)'
      BY <2>2 DEF View, n
    <3> HIDE DEF v, s
    <3> QED
      BY <2>2, <3>1, <3>6, <3>7, <3>8 DEF RequestBacked, Reached, Frozen
  <2> QED
    BY <2>1, <2>2
<1> QED
  BY <1>3, <1>4

\* A member's trust keeps its order while the group moves on.
LEMMA TrustKeeps ==
    ASSUME RotationInv, HeadOrdered(meta'), Reached(meta, meta'),
           UNCHANGED <<trust, live, truth, slot>>
    PROVE  \A n \in Members : TrustOrdered(n)'
BY DEF RotationInv, ViewsBehind, TrustOrdered, HeadOrdered, Reached, Frozen

\* What every step of the group leaves in place that writes its state and log.
LEMMA GroupKeeps ==
    ASSUME RotationInv, meta' \in States, HeadOrdered(meta'), Reached(meta, meta'),
           meta'.term = meta.term, meta'.epoch \in 1 .. MaxEpoch,
           proposals' \subseteq Entries, IsFiniteSet(proposals'),
           Cardinality(proposals') <= MaxPending,
           UNCHANGED <<view, trust, live, truth, slot, inv, observed, request, faults>>
    PROVE  /\ Shapes' /\ ViewsBehind' /\ Bounded'
           /\ \A n \in Members : TrustOrdered(n)' /\ InvocationBacked(n)'
           /\ \A r \in Requests : RequestBacked(r)'
<1>1. Shapes'
  BY DEF RotationInv, Shapes
<1>2. ViewsBehind' /\ \A r \in Requests : RequestBacked(r)'
  BY GroupMoves
<1>3. \A n \in Members : TrustOrdered(n)'
  BY TrustKeeps
<1>4. \A n \in Members : InvocationBacked(n)'
  BY QuietInvocations
<1>5. faults' \in 0 .. MaxFaults /\ faults <= faults'
  BY RotationAssumption DEF RotationInv, Shapes
<1>6. Bounded'
  BY <1>5, QuietBounds
<1> QED
  BY <1>1, <1>2, <1>3, <1>4, <1>6

\* Coverage, where the group's records of it stay and no acknowledgement is new.
LEMMA CoverageKeeps ==
    ASSUME RotationInv, UNCHANGED <<trust, observed>>,
           meta'.dispatch = meta.dispatch, meta'.ack = meta.ack,
           \A p \in proposals' :
              p.cmd.type = "Acknowledge" => \E q \in proposals : q.cmd = p.cmd
    PROVE  CoverageBacked'
<1>1. \A v, op : Activated(v, op)' <=> Activated(v, op)
  BY DEF Activated
<1>2. \A p \in proposals' : p.cmd.type = "Acknowledge" => Activated(p.cmd.op.v, p.cmd.op)'
  BY <1>1 DEF RotationInv, CoverageBacked
<1> QED
  BY <1>1, <1>2 DEF RotationInv, CoverageBacked, Activated

\* A verifier is named by a tenant, or the administrators change.
LEMMA ReferenceKeeps ==
    ASSUME RotationInv, (\E v \in Others : Reference(v)) \/ ChangePolicy
    PROVE  RotationInv'
<1>1. UNCHANGED <<view, proposals, trust, live, truth, slot, inv, observed, request, faults>>
  BY DEF Reference, ChangePolicy
<1>2. /\ meta' \in States
      /\ meta'.epoch \in {meta.epoch, meta.epoch + 1} /\ meta'.epoch \in 1 .. MaxEpoch
      /\ meta'.term = meta.term /\ meta'.dispatch = meta.dispatch /\ meta'.ack = meta.ack
      /\ meta'.staged = meta.staged /\ meta'.retirement = meta.retirement
      /\ meta'.active = meta.active /\ meta'.roster = meta.roster
      /\ meta'.enrolled = meta.enrolled
      /\ Frozen(meta) => meta'.referenced \subseteq meta.referenced \cup meta.enrolled
  <2>1. CASE \E v \in Others : Reference(v)
    BY <2>1, RotationAssumption DEF Reference, MayReference, RotationInv, Shapes, States, Bounded
  <2>2. CASE ChangePolicy
    BY <2>2, RotationAssumption DEF ChangePolicy, RotationInv, Shapes, States, Bounded
  <2> QED
    BY <2>1, <2>2
<1>3. HeadOrdered(meta') /\ Reached(meta, meta')
  BY <1>2 DEF RotationInv, ViewsBehind, HeadOrdered, Reached, Frozen
<1>4. RosterCovers' /\ (meta.roster \subseteq meta.enrolled)'
  BY <1>2 DEF RotationInv, RosterCovers, RosterComplete, Frozen
<1>5. CoverageBacked'
  BY <1>1, <1>2, CoverageKeeps
<1>6. /\ proposals' \subseteq Entries /\ IsFiniteSet(proposals')
      /\ Cardinality(proposals') <= MaxPending
  BY <1>1 DEF RotationInv, Shapes, Bounded
<1> QED
  BY <1>1, <1>2, <1>3, <1>4, <1>5, <1>6, GroupKeeps DEF RotationInv

\* The log's entries have the fields their types say.
LEMMA EntryFields ==
    ASSUME RotationInv, NEW p \in proposals
    PROVE  /\ p.epoch \in Nat /\ p.fresh \in BOOLEAN
           /\ p.cmd.type = "EnrollSignerVerifier" => p.cmd.v \in Verifiers
           /\ p.cmd.type \in {"AuthorizeSignerTrust", "Begin", "Acknowledge"} =>
                 p.cmd.op \in Ops /\ p.cmd.op.v \in Members
BY DEF RotationInv, Shapes, Entries, Globals, OpCommands, Ops

\* A new status leaves the map of statuses one.
LEMMA StatusShape ==
    ASSUME RotationInv, NEW op \in Ops, NEW phase \in {"Completed", "Rejected"}
    PROVE  Status(meta, op, phase) \in UNION {[D -> Statuses] : D \in SUBSET Ops}
<1> DEFINE f == Status(meta, op, phase)
<1>1. meta.epoch \in Nat /\ meta.ops \in UNION {[D -> Statuses] : D \in SUBSET Ops}
  BY DEF RotationInv, Shapes, States
<1>2. PICK D \in SUBSET Ops : meta.ops \in [D -> Statuses]
  BY <1>1
<1>3. f \in [D \cup {op} -> Statuses]
  BY <1>1, <1>2 DEF Status, Statuses
<1> QED
  BY <1>3

\* What a command of the head, or a permission, writes.
LEMMA MaintenanceWrites ==
    ASSUME RotationInv, NEW p \in proposals, ApplyMaintenance(p)
    PROVE  /\ meta' \in States
           /\ UNCHANGED <<meta.epoch, meta.term, meta.referenced, meta.dispatch, meta.ack>>
           /\ \/ /\ UNCHANGED <<meta.staged, meta.retirement, meta.active, meta.roster>>
                 /\ meta'.enrolled = meta.enrolled \/ ~Frozen(meta)
                 /\ meta.enrolled \subseteq meta'.enrolled
              \/ /\ ~Frozen(meta) /\ RosterComplete(meta)
                 /\ meta'.staged /\ ~meta'.retirement /\ meta'.active = meta.active
                 /\ meta'.enrolled = meta.enrolled /\ meta'.roster = meta.enrolled
              \/ /\ meta.staged
                 /\ ~meta'.staged /\ meta'.retirement /\ meta'.active = 2
                 /\ meta'.enrolled = meta.enrolled /\ meta'.roster = meta.roster
<1>0. meta \in States
  BY DEF RotationInv, Shapes
<1>1. CASE Acceptable(meta, p) /\ ApplyEnroll(p)
  BY <1>0, <1>1, EntryFields DEF Acceptable, ApplyEnroll, States
<1>2. CASE Acceptable(meta, p) /\ ApplyStage(p)
  BY <1>0, <1>2 DEF Acceptable, ApplyStage, States, Frozen
<1>3. CASE Acceptable(meta, p) /\ ApplyActivate(p)
  <2>1. meta.staged
    BY <1>3 DEF Acceptable, ApplyActivate
  <2>2. meta' = [meta EXCEPT !.staged = FALSE, !.retirement = TRUE, !.active = 2]
    BY <1>3 DEF ApplyActivate
  <2>3. meta' \in States
    <3>1. 2 \in 1 .. 2 /\ TRUE \in BOOLEAN /\ FALSE \in BOOLEAN
      OBVIOUS
    <3> QED
      BY <1>0, <2>2, <3>1 DEF States
  <2> QED
    BY <1>0, <2>1, <2>2, <2>3 DEF States
<1>4. CASE ApplyPermission(p)
  <2>1. p.cmd.op \in Ops /\ p.cmd.op.v \in Members
    BY <1>4, EntryFields DEF ApplyPermission
  <2>2. Status(meta, p.cmd.op, "Completed") \in UNION {[D -> Statuses] : D \in SUBSET Ops}
    BY <2>1, StatusShape
  <2> QED
    BY <1>0, <1>4, <2>1, <2>2 DEF ApplyPermission, States, Marked
<1>5. CASE ApplyRejection(p)
  <2>1. CASE p.cmd.type = "AuthorizeSignerTrust"
    <3>1. p.cmd.op \in Ops
      BY <2>1, EntryFields
    <3>2. Status(meta, p.cmd.op, "Rejected") \in UNION {[D -> Statuses] : D \in SUBSET Ops}
      BY <3>1, StatusShape
    <3> QED
      BY <1>0, <1>5, <2>1, <3>2 DEF ApplyRejection, States
  <2>2. CASE p.cmd.type # "AuthorizeSignerTrust"
    BY <1>0, <1>5, <2>2 DEF ApplyRejection
  <2> QED
    BY <2>1, <2>2
<1> QED
  BY <1>1, <1>2, <1>3, <1>4, <1>5 DEF ApplyMaintenance

\* Administrative entries.
LEMMA MaintenanceKeeps ==
    ASSUME RotationInv, NEW p \in proposals, ApplyMaintenance(p)
    PROVE  RotationInv'
<1>1. /\ UNCHANGED <<view, trust, live, truth, slot, inv, observed, request, faults>>
      /\ proposals' = Stale(p)
  BY DEF ApplyMaintenance
<1>2. HeadOrdered(meta') /\ Reached(meta, meta')
  BY MaintenanceWrites DEF RotationInv, ViewsBehind, HeadOrdered, Reached, Frozen
<1>3. RosterCovers' /\ (meta.roster \subseteq meta.enrolled)'
  BY MaintenanceWrites DEF RotationInv, RosterCovers, RosterComplete, Frozen
<1>4. CoverageBacked'
  BY <1>1, MaintenanceWrites, StaleView, CoverageKeeps
<1>5. /\ meta' \in States /\ meta'.term = meta.term /\ meta'.epoch \in 1 .. MaxEpoch
  BY MaintenanceWrites DEF RotationInv, Bounded
<1> QED
  BY <1>1, <1>2, <1>3, <1>4, <1>5, StaleView, GroupKeeps DEF RotationInv

\* A coverage entry that writes: the dispatch of a member that has none, or the
\* acknowledgement of the one it has.
LEMMA CoverageEntryKeeps ==
    ASSUME RotationInv, NEW p \in proposals, ApplyBegin(p) \/ ApplyAcknowledge(p)
    PROVE  RotationInv'
<1> DEFINE op == p.cmd.op
           v == p.cmd.op.v
<1>1. /\ UNCHANGED <<view, trust, live, truth, slot, inv, observed, request, faults>>
      /\ proposals' = Stale(p)
  BY DEF ApplyBegin, ApplyAcknowledge
<1>2. op \in Ops /\ v \in Members
  BY EntryFields DEF ApplyBegin, ApplyAcknowledge, CoverageBegins, CoverageAcknowledges
<1>3. /\ meta' \in States
      /\ UNCHANGED <<meta.epoch, meta.term, meta.staged, meta.retirement, meta.active,
                     meta.roster, meta.enrolled, meta.referenced>>
      /\ \/ /\ meta.dispatch[v] = None /\ meta'.ack = meta.ack
            /\ meta'.dispatch = [meta.dispatch EXCEPT ![v] = op]
         \/ /\ p.cmd.type = "Acknowledge" /\ meta.dispatch[v] = op
            /\ meta'.dispatch = meta.dispatch
            /\ meta'.ack = [meta.ack EXCEPT ![v] = TRUE]
  <2>0. meta \in States
    BY DEF RotationInv, Shapes
  <2>1. CASE ApplyBegin(p)
    BY <1>2, <2>0, <2>1 DEF ApplyBegin, CoverageBegins, States, Completed
  <2>2. CASE ApplyAcknowledge(p)
    BY <1>2, <2>0, <2>2 DEF ApplyAcknowledge, CoverageAcknowledges, States
  <2> QED
    BY <2>1, <2>2
<1>4. HeadOrdered(meta') /\ Reached(meta, meta')
  BY <1>3 DEF RotationInv, ViewsBehind, HeadOrdered, Reached, Frozen
<1>5. RosterCovers' /\ (meta.roster \subseteq meta.enrolled)'
  BY <1>3 DEF RotationInv, RosterCovers, RosterComplete, Frozen
<1>6. CoverageBacked'
  <2>1. \A w, o : Activated(w, o)' <=> Activated(w, o)
    BY <1>1 DEF Activated
  <2>2. \A q \in proposals' : q.cmd.type = "Acknowledge" => Activated(q.cmd.op.v, q.cmd.op)'
    BY <1>1, <2>1, StaleView DEF RotationInv, CoverageBacked
  <2>3. ASSUME NEW w \in Members
        PROVE  /\ meta'.dispatch[w] # None => meta'.dispatch[w].v = w
               /\ meta'.ack[w] => Activated(w, meta'.dispatch[w])
    <3>0. /\ meta.dispatch \in [Members -> Ops \cup {None}] /\ meta.ack \in [Members -> BOOLEAN]
          /\ meta.dispatch[w] # None => meta.dispatch[w].v = w
          /\ meta.ack[w] => Activated(w, meta.dispatch[w])
      BY DEF RotationInv, Shapes, States, CoverageBacked
    <3>1. CASE w # v
      BY <1>2, <1>3, <3>0, <3>1
    <3>2. CASE w = v /\ meta.dispatch[v] = None /\ meta'.ack = meta.ack
                     /\ meta'.dispatch = [meta.dispatch EXCEPT ![v] = op]
      <4>1. ~meta.ack[w]
        BY <3>0, <3>2, NoneAssumption DEF Activated, RotationInv, Shapes, TrustRecords
      <4> QED
        BY <1>2, <3>0, <3>2, <4>1
    <3>3. CASE /\ w = v /\ p.cmd.type = "Acknowledge" /\ meta.dispatch[v] = op
               /\ meta'.dispatch = meta.dispatch
               /\ meta'.ack = [meta.ack EXCEPT ![v] = TRUE]
      BY <1>2, <3>0, <3>3 DEF RotationInv, CoverageBacked
    <3> QED
      BY <1>3, <3>1, <3>2, <3>3
  <2>4. \A w \in Members :
           observed[w] # None => observed[w].v = w /\ Activated(w, observed[w])
    BY DEF RotationInv, CoverageBacked
  <2> QED
    BY <1>1, <2>1, <2>2, <2>3, <2>4 DEF CoverageBacked, Activated
<1>7. meta'.term = meta.term /\ meta'.epoch \in 1 .. MaxEpoch
  BY <1>3 DEF RotationInv, Bounded
<1> QED
  BY <1>1, <1>3, <1>4, <1>5, <1>6, <1>7, StaleView, GroupKeeps DEF RotationInv

\* An entry that is answered without a write, or is lost.
LEMMA NothingKeeps ==
    ASSUME RotationInv, NEW p \in proposals, ApplyNothing(p) \/ LoseProposal(p)
    PROVE  RotationInv'
<1>1. /\ UNCHANGED <<meta, view, trust, live, truth, slot, inv, observed, request>>
      /\ proposals' = proposals \ {p}
  BY DEF ApplyNothing, LoseProposal
<1>2. faults' \in 0 .. MaxFaults /\ faults <= faults'
  BY RotationAssumption DEF ApplyNothing, LoseProposal, RotationInv, Shapes
<1>3. CoverageBacked'
  BY <1>1, CoverageKeeps
<1>4. meta.epoch \in 1 .. MaxEpoch
  BY DEF RotationInv, Bounded
<1>5. Bounded'
  BY <1>1, <1>2, <1>4, RemoveView, QuietBounds
<1>6. Shapes'
  BY <1>1, <1>2, RemoveView DEF RotationInv, Shapes
<1> QED
  BY <1>1, <1>3, <1>5, <1>6, QuietGroup, QuietTrust, QuietInvocations, QuietRequests
     DEF RotationInv

----------------------------------------------------------------------------
(* The bounds *)

\* A member more or less among the marred ones.
LEMMA MarredCounts ==
    ASSUME NEW k, NEW l, NEW n
    PROVE  /\ Cardinality(Marred(k)) \in Nat /\ Cardinality(Marred(l)) \in Nat
           /\ Marred(l) \subseteq Marred(k) => Cardinality(Marred(l)) <= Cardinality(Marred(k))
           /\ Marred(l) \subseteq Marred(k) \cup {n} =>
                 Cardinality(Marred(l)) <= Cardinality(Marred(k)) + 1
           /\ n \in Marred(k) /\ Marred(l) \subseteq Marred(k) \ {n} =>
                 Cardinality(Marred(l)) <= Cardinality(Marred(k)) - 1
<1>1. Marred(k) \subseteq Members /\ Marred(l) \subseteq Members
  BY DEF Marred
<1> DEFINE K == Marred(k)
           L == Marred(l)
<1>2. IsFiniteSet(K) /\ IsFiniteSet(L)
  BY <1>1, RotationAssumption, FS_Subset
<1> HIDE DEF K, L
<1>3. Cardinality(K) \in Nat /\ Cardinality(L) \in Nat
  BY <1>2, FS_CardinalityType
<1>4. L \subseteq K => Cardinality(L) <= Cardinality(K)
  BY <1>2, FS_Subset
<1>5. ASSUME L \subseteq K \cup {n} PROVE Cardinality(L) <= Cardinality(K) + 1
  <2>1. /\ IsFiniteSet(K \cup {n})
        /\ Cardinality(K \cup {n}) \in {Cardinality(K), Cardinality(K) + 1}
    BY <1>2, FS_AddElement
  <2>2. Cardinality(L) <= Cardinality(K \cup {n})
    BY <1>5, <2>1, FS_Subset
  <2> QED
    BY <1>3, <2>1, <2>2
<1>6. ASSUME n \in K, L \subseteq K \ {n} PROVE Cardinality(L) <= Cardinality(K) - 1
  <2>1. IsFiniteSet(K \ {n}) /\ Cardinality(K \ {n}) = Cardinality(K) - 1
    BY <1>2, <1>6, FS_RemoveElement
  <2> QED
    BY <1>6, <2>1, FS_Subset
<1> QED
  BY <1>3, <1>4, <1>5, <1>6 DEF K, L

\* A step that spends a fault may mar a member or, without marring one, change
\* the leader; one that repairs a member may change the leader for free.
LEMMA BoundsKeep ==
    ASSUME RotationInv, NEW n, faults' \in 0 .. MaxFaults, meta' \in States,
           meta'.epoch = meta.epoch, proposals' = proposals,
           \/ /\ Marred(live') \subseteq Marred(live)
              /\ meta'.term = meta.term /\ faults' = faults
           \/ /\ Marred(live') \subseteq Marred(live) \cup {n}
              /\ meta'.term = meta.term /\ faults' = faults + 1
           \/ /\ Marred(live') \subseteq Marred(live)
              /\ meta'.term \in {meta.term, meta.term + 1} /\ faults' = faults + 1
           \/ /\ n \in Marred(live) /\ Marred(live') \subseteq Marred(live) \ {n}
              /\ meta'.term \in {meta.term, meta.term + 1} /\ faults' = faults
           \/ /\ Marred(live') \subseteq Marred(live)
              /\ meta'.term = meta.term + 1 /\ meta'.term <= MaxTerm /\ faults' = faults
    PROVE  Bounded'
<1> DEFINE c == Cardinality(Marred(live))
           d == Cardinality(Marred(live'))
<1>1. /\ c \in Nat /\ d \in Nat
      /\ Marred(live') \subseteq Marred(live) => d <= c
      /\ Marred(live') \subseteq Marred(live) \cup {n} => d <= c + 1
      /\ n \in Marred(live) /\ Marred(live') \subseteq Marred(live) \ {n} => d <= c - 1
  BY MarredCounts
<1>2. meta.term \in Nat /\ meta'.term \in Nat /\ faults \in Nat /\ faults' \in Nat
      /\ MaxTerm \in Nat
  BY RotationAssumption DEF RotationInv, Shapes, States
<1>3. c <= faults /\ meta.term + c <= MaxTerm + faults /\ meta.term >= 1
  BY DEF RotationInv, Bounded
<1>4. Cardinality(Marred(live))' = d
  BY DEF Marred
<1>5. d <= faults' /\ meta'.term + d <= MaxTerm + faults' /\ meta'.term >= 1
  <2> HIDE DEF c, d
  <2> QED
    BY <1>1, <1>2, <1>3
<1> HIDE DEF c, d
<1> QED
  BY <1>4, <1>5 DEF RotationInv, Bounded

----------------------------------------------------------------------------
(* Steps of a member *)

\* The caller of an invocation, where trust stays: what it does to the log, to
\* what coverage observed and to the invocation itself.
LEMMA CallerKeeps ==
    ASSUME RotationInv, NEW n \in Members,
           \/ \E op \in Ops : BeginInvocation(n, op)
           \/ ProposePermission(n) \/ Permitted(n) \/ EndInvocation(n) \/ CancelInvocation(n)
    PROVE  RotationInv'
<1>1. UNCHANGED <<meta, view, trust, live, truth, slot, observed, request>>
  BY DEF BeginInvocation, ProposePermission, Permitted, EndInvocation, CancelInvocation
<1>2. /\ faults' \in 0 .. MaxFaults /\ faults <= faults'
      /\ faults' = faults \/ proposals' = proposals
  BY RotationAssumption DEF BeginInvocation, ProposePermission, Permitted, EndInvocation,
     CancelInvocation, RotationInv, Shapes
<1>3. /\ inv' \in [Members -> Invocations \cup {None}]
      /\ \A m \in Members : \/ inv'[m] = inv[m] \/ inv'[m] = None
                            \/ inv'[m].phase \in {"permit", "wait", "apply"} /\ inv'[m].op.v = m
  <2>1. ASSUME NEW op \in Ops, BeginInvocation(n, op)
        PROVE  /\ inv' \in [Members -> Invocations \cup {None}]
               /\ \A m \in Members : \/ inv'[m] = inv[m]
                                     \/ inv'[m].phase = "permit" /\ inv'[m].op.v = m
    <3>1. op.v = n
      BY <2>1 DEF BeginInvocation, NextCommands, OldCommands, RotationInv, InvocationBacked
    <3>2. inv' = [inv EXCEPT ![n] = [op |-> op, phase |-> "permit",
                                     term |-> meta.term, epoch |-> meta.epoch]]
      BY <2>1 DEF BeginInvocation
    <3>3. meta.term \in Nat /\ meta.epoch \in Nat
      BY DEF RotationInv, Shapes, States
    <3>4. [op |-> op, phase |-> "permit", term |-> meta.term, epoch |-> meta.epoch]
             \in Invocations
      BY <3>3 DEF Invocations
    <3> QED
      BY <3>1, <3>2, <3>4 DEF RotationInv, Shapes
  <2>2. CASE ProposePermission(n) \/ Permitted(n)
    <3>1. inv[n] \in Invocations /\ inv[n].op.v = n
      BY <2>2 DEF ProposePermission, Permitted, RotationInv, Shapes, InvocationBacked
    <3>2. PICK ph \in {"wait", "apply"} : inv' = [inv EXCEPT ![n].phase = ph]
      BY <2>2 DEF ProposePermission, Permitted
    <3>3. [inv[n] EXCEPT !.phase = ph] \in Invocations
      BY <3>1, <3>2 DEF Invocations
    <3>4. inv' = [inv EXCEPT ![n] = [inv[n] EXCEPT !.phase = ph]]
      BY <3>2 DEF RotationInv, Shapes
    <3>5. [inv[n] EXCEPT !.phase = ph].op.v = n /\ [inv[n] EXCEPT !.phase = ph].phase = ph
      BY <3>1 DEF Invocations
    <3> QED
      BY <3>3, <3>4, <3>5 DEF RotationInv, Shapes
  <2>3. CASE EndInvocation(n) \/ CancelInvocation(n)
    BY <2>3 DEF EndInvocation, CancelInvocation, RotationInv, Shapes
  <2> QED
    BY <2>1, <2>2, <2>3
<1>4. \A m \in Members : InvocationBacked(m)'
  BY <1>1, <1>3 DEF RotationInv, InvocationBacked, Matches, Revision
<1>5. /\ proposals' \subseteq Entries
      /\ IsFiniteSet(proposals') /\ Cardinality(proposals') <= MaxPending
      /\ \A p \in proposals' : p.cmd.type = "Acknowledge" => p \in proposals
  <2>1. CASE ProposePermission(n)
    <3> DEFINE cmd == [type |-> "AuthorizeSignerTrust", op |-> inv[n].op]
    <3>1. cmd \in Globals \cup OpCommands /\ Propose(cmd) /\ cmd.type = "AuthorizeSignerTrust"
      BY <2>1 DEF ProposePermission, OpCommands, RotationInv, Shapes, Invocations
    <3> HIDE DEF cmd
    <3> QED
      BY <3>1, ProposeView
  <2>2. CASE proposals' = proposals
    BY <2>2 DEF RotationInv, Shapes, Bounded
  <2> QED
    BY <2>1, <2>2 DEF BeginInvocation, Permitted, EndInvocation, CancelInvocation
<1>6. CoverageBacked'
  BY <1>1, <1>5, CoverageKeeps
<1>7. meta.epoch \in 1 .. MaxEpoch
  BY DEF RotationInv, Bounded
<1>8. Bounded'
  BY <1>1, <1>2, <1>5, <1>7, QuietBounds
<1>9. Shapes'
  BY <1>1, <1>2, <1>3, <1>5 DEF RotationInv, Shapes
<1> QED
  BY <1>1, <1>4, <1>6, <1>8, <1>9, QuietGroup, QuietTrust, QuietRequests DEF RotationInv

\* A reply: what a coverage caller keeps, it has really seen activated.
LEMMA ReplyKeeps == ASSUME RotationInv, NEW n \in Members, Reply(n) PROVE RotationInv'
<1>1. /\ UNCHANGED <<meta, view, proposals, trust, live, truth, slot, request, faults>>
      /\ inv' = [inv EXCEPT ![n] = None]
      /\ inv[n] # None /\ inv[n].phase = "reply"
  BY DEF Reply
<1>2. inv[n].op \in Ops /\ inv[n].op.v = n /\ inv[n].op \in trust[n].receipts
  BY <1>1 DEF RotationInv, Shapes, Invocations, InvocationBacked
<1>3. \/ observed' = observed
      \/ trust[n].active = 2 /\ observed' = [observed EXCEPT ![n] = inv[n].op]
  BY DEF Reply
<1>4. /\ inv' \in [Members -> Invocations \cup {None}]
      /\ \A m \in Members : inv'[m] = inv[m] \/ inv'[m] = None
      /\ observed' \in [Members -> Ops \cup {None}]
      /\ \A m \in Members : \/ observed'[m] = observed[m]
                            \/ observed'[m].v = m /\ Activated(m, observed'[m])
  BY <1>1, <1>2, <1>3 DEF RotationInv, Shapes, Activated
<1>5. \A m \in Members : InvocationBacked(m)'
  BY <1>1, <1>4 DEF RotationInv, InvocationBacked, Matches, Revision
<1>6. CoverageBacked'
  BY <1>1, <1>4 DEF RotationInv, CoverageBacked, Activated
<1>7. Bounded' /\ Shapes'
  BY <1>1, <1>4 DEF RotationInv, Bounded, Shapes, Marred
<1> QED
  BY <1>1, <1>5, <1>6, <1>7, QuietGroup, QuietTrust, QuietRequests DEF RotationInv

\* A member's live owner before the commit: only the reading its witness keeps
\* and whether it is closed may change.
LEMMA PrepareView ==
    ASSUME RotationInv, NEW n \in Members,
           Prepare(n) \/ RetirementRegressed(n) \/ RetirementEarly(n)
    PROVE  /\ live' \in [Members -> LiveRecords]
           /\ Marred(live') \subseteq Marred(live)
           /\ \A m \in Members :
                 /\ ~live'[m].closed => ~live[m].closed
                 /\ live'[m].witness = None <=> live[m].witness = None
                 /\ live[m].witness # None => live'[m].witness.age = live[m].witness.age
<1> DEFINE w == live[n].witness
<1>1. live[n] \in LiveRecords /\ live \in [Members -> LiveRecords]
  BY DEF RotationInv, Shapes
<1>2. CASE live' = live
  BY <1>1, <1>2
<1>3. CASE RetirementRegressed(n)
  <2>1. live' = [live EXCEPT ![n].closed = TRUE] /\ n \in Marred(live)
    BY <1>3 DEF RetirementRegressed, Regressed, Marred
  <2>2. live' \in [Members -> LiveRecords]
    BY <1>1, <2>1 DEF LiveRecords
  <2>3. \A m \in Members :
           /\ m = n => live'[m].closed /\ live'[m].witness = live[m].witness
           /\ m # n => live'[m] = live[m]
    BY <1>1, <2>1 DEF LiveRecords
  <2> QED
    BY <2>1, <2>2, <2>3 DEF Marred
<1>4. CASE /\ live' = [live EXCEPT ![n].witness.last = live[n].witness.age]
           /\ inv[n].op.kind = "CompleteRetirement" /\ Matches(trust[n], inv[n].op)
           /\ ~live[n].closed
  <2>1. trust[n].retirement # None
    <3>1. "CompleteRetirement" # "Stage" /\ "CompleteRetirement" # "Activate"
      OBVIOUS
    <3> QED
      BY <1>4, <3>1 DEF Matches
  <2>2. w # None /\ w \in Witnesses
    BY <1>1, <1>4, <2>1 DEF RotationInv, TrustOrdered, LiveRecords
  <2>3. live' = [live EXCEPT ![n] = [live[n] EXCEPT !.witness = [w EXCEPT !.last = w.age]]]
    BY <1>1, <1>4
  <2> DEFINE x == [w EXCEPT !.last = w.age]
  <2>4. x \in Witnesses /\ x.age = w.age /\ x.last = w.age /\ w.age \in Int
    BY <2>2 DEF Witnesses
  <2>5. x # None
    BY <2>4, NoneAssumption
  <2> HIDE DEF x
  <2>6. live' \in [Members -> LiveRecords]
    BY <1>1, <2>3, <2>4 DEF LiveRecords, x
  <2>7. \A m \in Members :
           /\ m = n => live'[m].closed = live[m].closed /\ live'[m].witness = x
           /\ m # n => live'[m] = live[m]
    BY <1>1, <2>3 DEF LiveRecords, x
  <2>8. n \notin Marred(live')
    BY <1>4, <2>4, <2>7 DEF Marred
  <2>9. Marred(live') \subseteq Marred(live)
    BY <2>7, <2>8 DEF Marred
  <2> QED
    BY <2>2, <2>4, <2>5, <2>6, <2>7, <2>9
<1>5. CASE Prepare(n)
  BY <1>2, <1>4, <1>5 DEF Prepare
<1>6. CASE RetirementEarly(n)
  BY <1>4, <1>6 DEF RetirementEarly, Drained
<1> QED
  BY <1>3, <1>5, <1>6

\* administer up to its commit: an invocation that goes on to it has matched the
\* record and, to retire, waited its time out.
LEMMA PrepareKeeps ==
    ASSUME RotationInv, NEW n \in Members,
           Prepare(n) \/ RetirementRegressed(n) \/ RetirementEarly(n)
    PROVE  RotationInv'
<1>1. UNCHANGED <<meta, view, proposals, trust, truth, slot, observed, request, faults>>
  BY DEF Prepare, RetirementRegressed, RetirementEarly
<1>2. /\ inv[n] # None /\ inv[n] \in Invocations /\ inv[n].op.v = n /\ ~live[n].closed
      /\ \/ inv' = [inv EXCEPT ![n] = None]
         \/ inv' = [inv EXCEPT ![n].phase = "reply"] /\ inv[n].op \in trust[n].receipts
         \/ /\ inv' = [inv EXCEPT ![n].phase = "commit"]
            /\ Matches(trust[n], inv[n].op) /\ Drained(n, inv[n].op)
  BY DEF Prepare, RetirementRegressed, RetirementEarly, RotationInv, Shapes, InvocationBacked
<1>3. \A m \in Members : TrustOrdered(m)'
  BY <1>1, PrepareView DEF RotationInv, TrustOrdered, Frozen
<1>4. ASSUME Matches(trust[n], inv[n].op), Drained(n, inv[n].op),
             inv[n].op.kind = "CompleteRetirement"
      PROVE  truth[n] = RetirementDrain
  <2>1. trust[n].retirement # None
    <3>1. "CompleteRetirement" # "Stage" /\ "CompleteRetirement" # "Activate"
      OBVIOUS
    <3> QED
      BY <1>4, <3>1 DEF Matches
  <2>2. live[n].witness \in Witnesses /\ live[n].witness # None
    BY <1>2, <2>1 DEF RotationInv, Shapes, LiveRecords, TrustOrdered
  <2>3. live[n].witness.age >= RetirementDrain /\ live[n].witness.age \in Int
    BY <1>4, <2>2 DEF Drained, Witnesses
  <2>4. truth[n] \in 0 .. RetirementDrain
    BY DEF RotationInv, Shapes
  <2>5. live[n].witness.age <= truth[n] \/ truth[n] = RetirementDrain
    BY <2>2 DEF RotationInv, TrustOrdered
  <2> QED
    BY <2>3, <2>4, <2>5, RotationAssumption
<1>5. inv' \in [Members -> Invocations \cup {None}] /\ \A m \in Members : InvocationBacked(m)'
  <2>1. CASE inv' = [inv EXCEPT ![n] = None]
    BY <1>1, <2>1 DEF RotationInv, Shapes, InvocationBacked, Matches, Revision
  <2>2. ASSUME NEW ph \in {"reply", "commit"}, inv' = [inv EXCEPT ![n].phase = ph],
               ph = "reply" => inv[n].op \in trust[n].receipts,
               ph = "commit" => Matches(trust[n], inv[n].op) /\ Drained(n, inv[n].op)
        PROVE  inv' \in [Members -> Invocations \cup {None}]
               /\ \A m \in Members : InvocationBacked(m)'
    <3>1. inv' = [inv EXCEPT ![n] = [inv[n] EXCEPT !.phase = ph]]
      BY <2>2 DEF RotationInv, Shapes
    <3>2. /\ [inv[n] EXCEPT !.phase = ph] \in Invocations
          /\ [inv[n] EXCEPT !.phase = ph].op = inv[n].op
          /\ [inv[n] EXCEPT !.phase = ph].phase = ph
      BY <1>2, <2>2 DEF Invocations
    <3>3. inv' \in [Members -> Invocations \cup {None}]
      BY <3>1, <3>2 DEF RotationInv, Shapes
    <3>4. \A m \in Members : /\ m # n => inv'[m] = inv[m]
                             /\ m = n => inv'[m].op = inv[m].op /\ inv'[m].phase = ph
      BY <3>1, <3>2 DEF RotationInv, Shapes
    <3>5. ph = "commit" /\ inv[n].op.kind = "CompleteRetirement" => truth[n] = RetirementDrain
      BY <1>4, <2>2
    <3>6. ASSUME NEW m \in Members, m # n PROVE InvocationBacked(m)'
      BY <1>1, <3>4, <3>6 DEF RotationInv, InvocationBacked, Matches, Revision
    <3>7. InvocationBacked(n)'
      BY <1>1, <1>2, <2>2, <3>4, <3>5 DEF RotationInv, InvocationBacked, Matches, Revision
    <3> QED
      BY <3>3, <3>6, <3>7
  <2> QED
    BY <1>2, <2>1, <2>2
<1>6. faults' \in 0 .. MaxFaults /\ meta' \in States
  BY <1>1 DEF RotationInv, Shapes
<1>7. Bounded'
  BY <1>1, <1>6, PrepareView, BoundsKeep
<1>8. Shapes'
  BY <1>1, <1>5, PrepareView DEF RotationInv, Shapes
<1> QED
  BY <1>1, <1>3, <1>5, <1>7, <1>8, QuietGroup, QuietRequests, QuietCoverage DEF RotationInv

\* What a command does to the record it matches.
LEMMA EffectView ==
    ASSUME NEW r \in TrustRecords, NEW op \in Ops, Matches(r, op)
    PROVE  /\ Effect(r, op) \in TrustRecords
           /\ Effect(r, op).receipts = r.receipts \cup {op}
           /\ op.kind = "Stage" =>
                /\ Effect(r, op).staged = op /\ Effect(r, op).active = r.active
                /\ Effect(r, op).retirement = None /\ r.retirement = None
           /\ op.kind = "Activate" =>
                /\ Effect(r, op).staged = None /\ Effect(r, op).active = 2
                /\ Effect(r, op).retirement = op /\ r.staged # None
           /\ op.kind = "CompleteRetirement" =>
                /\ Effect(r, op).staged = r.staged /\ Effect(r, op).active = r.active
                /\ Effect(r, op).retirement = None /\ r.retirement # None
<1>1. /\ r.staged \in Ops \cup {None} /\ r.active \in 1 .. 2 /\ 2 \in 1 .. 2
      /\ r.retirement \in Ops \cup {None} /\ r.receipts \in SUBSET Ops
      /\ r.receipts \cup {op} \in SUBSET Ops
  BY DEF TrustRecords
<1>2. op.kind \in {"Stage", "Activate", "CompleteRetirement"}
  BY DEF Ops, Kinds
<1>3. CASE op.kind = "Stage"
  <2>1. Effect(r, op) = [r EXCEPT !.staged = op, !.receipts = r.receipts \cup {op}]
    BY <1>3 DEF Effect, TrustRecords
  <2>2. r.retirement = None
    BY <1>3 DEF Matches
  <2> QED
    BY <1>1, <1>3, <2>1, <2>2 DEF TrustRecords
<1>4. CASE op.kind = "Activate"
  <2>1. Effect(r, op) = [r EXCEPT !.staged = None, !.retirement = op, !.active = 2,
                                  !.receipts = r.receipts \cup {op}]
    BY <1>4 DEF Effect, TrustRecords
  <2>2. r.staged # None
    BY <1>4 DEF Matches
  <2> QED
    BY <1>1, <1>4, <2>1, <2>2 DEF TrustRecords
<1>5. CASE op.kind = "CompleteRetirement"
  <2>1. Effect(r, op) = [r EXCEPT !.retirement = None, !.receipts = r.receipts \cup {op}]
    BY <1>5 DEF Effect, TrustRecords
  <2>2. r.retirement # None
    BY <1>5 DEF Matches
  <2> QED
    BY <1>1, <1>5, <2>1, <2>2 DEF TrustRecords
<1> QED
  BY <1>2, <1>3, <1>4, <1>5

\* A directive that is current names a head the group has reached.
LEMMA DirectiveReached ==
    ASSUME RotationInv, NEW n \in Members, DirectiveCurrent(n)
    PROVE  /\ inv[n].op.kind = "Stage" => Frozen(meta)
           /\ inv[n].op.kind = "Activate" => meta.active = 2
<1>1. HeadOrdered(View(n)) /\ Reached(View(n), meta) /\ HeadOrdered(meta)
  BY ViewReached DEF RotationInv, ViewsBehind
<1>2. ValidForHead(View(n), inv[n].op)
  BY DEF DirectiveCurrent, DirectiveValid
<1> QED
  BY <1>1, <1>2 DEF ValidForHead, HeadOrdered, Reached, Frozen

\* Coverage stays true when a member's record takes one more receipt.
LEMMA CoverageGrows ==
    ASSUME RotationInv, UNCHANGED <<meta, proposals, observed>>,
           \A v \in Members : /\ trust[v].receipts \subseteq trust'[v].receipts
                              /\ trust[v].active = 2 => trust'[v].active = 2
    PROVE  CoverageBacked'
<1>1. \A v \in Members : \A op : Activated(v, op) => Activated(v, op)'
  BY DEF Activated
<1>2. \A p \in proposals : p.cmd.type = "Acknowledge" => Activated(p.cmd.op.v, p.cmd.op)'
  BY <1>1, EntryFields DEF RotationInv, CoverageBacked
<1>3. \A v \in Members :
         /\ meta.dispatch[v] # None => meta.dispatch[v].v = v
         /\ observed[v] # None => observed[v].v = v /\ Activated(v, observed[v])'
         /\ meta.ack[v] => Activated(v, meta.dispatch[v])'
  BY <1>1 DEF RotationInv, CoverageBacked
<1> QED
  BY <1>2, <1>3 DEF CoverageBacked, Activated

\* The commit of a command, certain or not, on the member's record and clock.
LEMMA CommitView ==
    ASSUME RotationInv, NEW n \in Members, inv[n] # None, inv[n].phase = "commit",
           ~live[n].closed, DirectiveCurrent(n),
           trust' = [trust EXCEPT ![n] = Effect(trust[n], inv[n].op)],
           truth' = [truth EXCEPT ![n] = IF inv[n].op.kind = "Activate" THEN 0 ELSE truth[n]],
           UNCHANGED <<meta, slot>>
    PROVE  /\ trust' \in [Members -> TrustRecords]
           /\ truth' \in [Members -> 0 .. RetirementDrain]
           /\ \A m \in Members : m # n => trust'[m] = trust[m] /\ truth'[m] = truth[m]
           /\ \A m \in Members :
                 /\ trust[m].receipts \subseteq trust'[m].receipts
                 /\ trust[m].active = 2 => trust'[m].active = 2
           /\ inv[n].op \in trust'[n].receipts /\ \A op \in trust'[n].receipts : op.v = n
           /\ trust'[n].staged # None => Frozen(meta) /\ trust'[n].retirement = None
           /\ trust'[n].active = 2 => meta.active = 2
           /\ slot[n] <= trust'[n].active
           /\ trust'[n].active = 2 /\ trust'[n].retirement = None => truth'[n] = RetirementDrain
           /\ \/ inv[n].op.kind = "Activate" /\ live[n].witness = None
                 /\ trust'[n].retirement # None /\ trust[n].retirement = None
              \/ truth'[n] = truth[n] /\ trust'[n].retirement = None
<1> DEFINE r == trust[n]
           op == inv[n].op
           e == Effect(r, op)
<1>1. r \in TrustRecords /\ op \in Ops /\ op.v = n /\ Matches(r, op)
      /\ (op.kind = "CompleteRetirement" => truth[n] = RetirementDrain)
      /\ \A q \in r.receipts : q.v = n
  BY DEF RotationInv, Shapes, Invocations, InvocationBacked
<1>2. /\ op.kind \in {"Stage", "Activate", "CompleteRetirement"} /\ op # None
      /\ op.kind = "Stage" => Frozen(meta)
      /\ op.kind = "Activate" => meta.active = 2
  BY <1>1, NoneAssumption, DirectiveReached DEF Ops, Kinds
<1>3. /\ trust \in [Members -> TrustRecords] /\ truth \in [Members -> 0 .. RetirementDrain]
      /\ 0 \in 0 .. RetirementDrain /\ slot[n] \in 1 .. 2 /\ r.active \in 1 .. 2
      /\ RetirementDrain \in Nat
  BY RotationAssumption DEF RotationInv, Shapes, TrustRecords
<1>4. /\ r.staged # None => Frozen(meta) /\ r.retirement = None
      /\ r.active = 2 => meta.active = 2
      /\ slot[n] <= r.active
      /\ r.active = 2 /\ r.retirement = None => truth[n] = RetirementDrain
      /\ (live[n].witness = None) <=> (r.retirement = None)
  BY DEF RotationInv, TrustOrdered
<1>5. /\ e \in TrustRecords /\ e.receipts = r.receipts \cup {op}
      /\ op.kind = "Stage" =>
           e.staged = op /\ e.active = r.active /\ e.retirement = None /\ r.retirement = None
      /\ op.kind = "Activate" =>
           e.staged = None /\ e.active = 2 /\ e.retirement = op /\ r.staged # None
      /\ op.kind = "CompleteRetirement" =>
           e.staged = r.staged /\ e.active = r.active /\ e.retirement = None
           /\ r.retirement # None
  BY <1>1, EffectView
<1> HIDE DEF e
<1>6. /\ trust'[n] = e /\ trust' \in [Members -> TrustRecords]
      /\ truth'[n] = IF op.kind = "Activate" THEN 0 ELSE truth[n]
      /\ truth' \in [Members -> 0 .. RetirementDrain]
      /\ \A m \in Members : m # n => trust'[m] = trust[m] /\ truth'[m] = truth[m]
  BY <1>3, <1>5 DEF e
<1> HIDE DEF r, op
<1>7. /\ r.receipts \subseteq trust'[n].receipts /\ (r.active = 2 => trust'[n].active = 2)
      /\ op \in trust'[n].receipts /\ \A q \in trust'[n].receipts : q.v = n
  BY <1>1, <1>2, <1>5, <1>6
<1>8. /\ trust'[n].staged # None => Frozen(meta) /\ trust'[n].retirement = None
      /\ trust'[n].active = 2 => meta.active = 2
      /\ trust'[n].active = 2 /\ trust'[n].retirement = None => truth'[n] = RetirementDrain
      /\ \/ op.kind = "Activate" /\ live[n].witness = None
            /\ trust'[n].retirement # None /\ r.retirement = None
         \/ truth'[n] = truth[n] /\ trust'[n].retirement = None
  BY <1>1, <1>2, <1>4, <1>5, <1>6
<1>9. slot[n] <= trust'[n].active
  BY <1>2, <1>3, <1>4, <1>5, <1>6
<1>10. \A m \in Members : /\ trust[m].receipts \subseteq trust'[m].receipts
                          /\ trust[m].active = 2 => trust'[m].active = 2
  BY <1>6, <1>7 DEF r
<1> QED
  BY <1>6, <1>7, <1>8, <1>9, <1>10 DEF r, op

\* A commit that its caller sees.
LEMMA CommitKeeps == ASSUME RotationInv, NEW n \in Members, Commit(n) PROVE RotationInv'
<1>1. /\ inv[n] # None /\ inv[n].phase = "commit" /\ ~live[n].closed /\ DirectiveCurrent(n)
      /\ trust' = [trust EXCEPT ![n] = Effect(trust[n], inv[n].op)]
      /\ truth' = [truth EXCEPT ![n] = IF inv[n].op.kind = "Activate" THEN 0 ELSE truth[n]]
      /\ live' = [live EXCEPT ![n].witness =
                    IF trust'[n].retirement # trust[n].retirement THEN NewWitness(trust'[n])
                    ELSE live[n].witness]
      /\ inv' = [inv EXCEPT ![n].phase = "reply"]
      /\ UNCHANGED <<meta, view, proposals, slot, observed, request, faults>>
  BY DEF Commit, RotationInv, Shapes
<1> DEFINE w == IF trust'[n].retirement # trust[n].retirement THEN NewWitness(trust'[n])
                ELSE live[n].witness
           z == [age |-> 0, last |-> 0]
<1>2. /\ live \in [Members -> LiveRecords] /\ live[n] \in LiveRecords
      /\ (live[n].witness = None) <=> (trust[n].retirement = None)
      /\ live[n].witness # None => live[n].witness.age <= truth[n] \/ truth[n] = RetirementDrain
  BY <1>1 DEF RotationInv, Shapes, TrustOrdered
<1>3. z \in Witnesses /\ z # None /\ z.age = 0 /\ z.last = 0
  BY NoneAssumption DEF Witnesses
<1>4. /\ \/ inv[n].op.kind = "Activate" /\ live[n].witness = None
            /\ trust'[n].retirement # None /\ trust[n].retirement = None
         \/ truth'[n] = truth[n] /\ trust'[n].retirement = None
      /\ truth'[n] \in 0 .. RetirementDrain
  BY <1>1, CommitView
<1>5. \/ w = z /\ trust'[n].retirement # None
      \/ w = None /\ trust'[n].retirement = None
  BY <1>2, <1>3, <1>4 DEF NewWitness
<1> HIDE DEF w, z
<1>6. /\ live' \in [Members -> LiveRecords]
      /\ \A m \in Members :
           /\ m # n => live'[m] = live[m]
           /\ m = n => live'[m].closed = live[m].closed /\ live'[m].witness = w
  <2>1. live' = [live EXCEPT ![n] = [live[n] EXCEPT !.witness = w]]
    BY <1>1, <1>2 DEF w
  <2>2. [live[n] EXCEPT !.witness = w] \in LiveRecords
    BY <1>2, <1>3, <1>5 DEF LiveRecords
  <2> QED
    BY <1>2, <2>1, <2>2 DEF LiveRecords
<1>7. Marred(live') \subseteq Marred(live)
  <2>1. n \notin Marred(live')
    BY <1>1, <1>3, <1>5, <1>6 DEF Marred
  <2> QED
    BY <1>6, <2>1 DEF Marred
<1>8. ASSUME NEW m \in Members PROVE TrustOrdered(m)'
  <2>1. CASE m # n
    BY <1>1, <1>6, <2>1, CommitView DEF RotationInv, TrustOrdered
  <2>2. CASE m = n
    <3>1. /\ trust'[n].staged # None => Frozen(meta) /\ trust'[n].retirement = None
          /\ trust'[n].active = 2 => meta.active = 2
          /\ slot[n] <= trust'[n].active
          /\ trust'[n].active = 2 /\ trust'[n].retirement = None => truth'[n] = RetirementDrain
      BY <1>1, CommitView
    <3>2. /\ (live'[n].witness = None) <=> (trust'[n].retirement = None)
          /\ live'[n].witness # None => live'[n].witness.age = 0
      BY <1>3, <1>5, <1>6
    <3>3. live'[n].witness # None => live'[n].witness.age <= truth'[n]
      BY <1>4, <3>2, RotationAssumption
    <3> QED
      BY <1>1, <2>2, <3>1, <3>2, <3>3 DEF TrustOrdered, Frozen
  <2> QED
    BY <2>1, <2>2
<1>9. inv' \in [Members -> Invocations \cup {None}]
      /\ \A m \in Members : /\ m # n => inv'[m] = inv[m]
                            /\ m = n => inv'[m].op = inv[m].op /\ inv'[m].phase = "reply"
  <2>1. inv[n] \in Invocations
    BY <1>1 DEF RotationInv, Shapes
  <2>2. /\ [inv[n] EXCEPT !.phase = "reply"] \in Invocations
        /\ [inv[n] EXCEPT !.phase = "reply"].op = inv[n].op
        /\ [inv[n] EXCEPT !.phase = "reply"].phase = "reply"
    BY <2>1 DEF Invocations
  <2>3. inv' = [inv EXCEPT ![n] = [inv[n] EXCEPT !.phase = "reply"]]
    BY <1>1 DEF RotationInv, Shapes
  <2> QED
    BY <2>2, <2>3 DEF RotationInv, Shapes
<1>10. ASSUME NEW m \in Members PROVE InvocationBacked(m)'
  <2>1. CASE m # n
    <3>1. trust'[m] = trust[m] /\ truth'[m] = truth[m] /\ inv'[m] = inv[m]
      BY <1>1, <1>9, <2>1, CommitView
    <3> QED
      BY <3>1 DEF RotationInv, InvocationBacked, Matches, Revision
  <2>2. CASE m = n
    <3>1. inv[n].op \in trust'[n].receipts /\ \A op \in trust'[n].receipts : op.v = n
      BY <1>1, CommitView
    <3> QED
      BY <1>9, <2>2, <3>1 DEF InvocationBacked
  <2> QED
    BY <2>1, <2>2
<1>11. CoverageBacked'
  BY <1>1, CommitView, CoverageGrows
<1>12. faults' \in 0 .. MaxFaults /\ meta' \in States
  BY <1>1 DEF RotationInv, Shapes
<1>13. Bounded'
  BY <1>1, <1>7, <1>12, BoundsKeep
<1>14. trust' \in [Members -> TrustRecords] /\ truth' \in [Members -> 0 .. RetirementDrain]
  BY <1>1, CommitView
<1>15. Shapes'
  BY <1>1, <1>6, <1>9, <1>14 DEF RotationInv, Shapes
<1> QED
  BY <1>1, <1>8, <1>10, <1>11, <1>13, <1>15, QuietGroup, QuietRequests DEF RotationInv

\* A commit that may have happened: the owner closes either way.
LEMMA UncertainKeeps == ASSUME RotationInv, NEW n \in Members, CommitUncertain(n) PROVE RotationInv'
<1>1. /\ inv[n] # None /\ inv[n].phase = "commit" /\ ~live[n].closed /\ DirectiveCurrent(n)
      /\ faults < MaxFaults /\ faults' = faults + 1
      /\ live' = [live EXCEPT ![n].closed = TRUE]
      /\ inv' = [inv EXCEPT ![n] = None]
      /\ UNCHANGED <<meta, view, proposals, slot, observed, request>>
  BY DEF CommitUncertain
<1>2. \/ UNCHANGED <<trust, truth>>
      \/ /\ trust' = [trust EXCEPT ![n] = Effect(trust[n], inv[n].op)]
         /\ truth' = [truth EXCEPT ![n] = IF inv[n].op.kind = "Activate" THEN 0 ELSE truth[n]]
  BY DEF CommitUncertain, RotationInv, Shapes
<1>3. /\ live' \in [Members -> LiveRecords]
      /\ \A m \in Members :
           /\ m # n => live'[m] = live[m]
           /\ m = n => live'[m].closed /\ live'[m].witness = live[m].witness
  BY <1>1 DEF RotationInv, Shapes, LiveRecords
<1>4. Marred(live') \subseteq Marred(live) \cup {n}
  BY <1>3 DEF Marred
<1>5. /\ inv' \in [Members -> Invocations \cup {None}]
      /\ \A m \in Members : inv'[m] = IF m = n THEN None ELSE inv[m]
  BY <1>1 DEF RotationInv, Shapes
<1>6. /\ trust' \in [Members -> TrustRecords] /\ truth' \in [Members -> 0 .. RetirementDrain]
      /\ (\A m \in Members : TrustOrdered(m)' /\ InvocationBacked(m)') /\ CoverageBacked'
  <2>1. CASE UNCHANGED <<trust, truth>>
    <3>1. \A m \in Members : TrustOrdered(m)'
      BY <1>1, <1>3, <2>1 DEF RotationInv, TrustOrdered, Frozen
    <3>2. \A m \in Members : InvocationBacked(m)'
      BY <1>5, <2>1 DEF RotationInv, InvocationBacked, Matches, Revision
    <3> QED
      BY <1>1, <2>1, <3>1, <3>2, QuietCoverage DEF RotationInv, Shapes
  <2>2. CASE /\ trust' = [trust EXCEPT ![n] = Effect(trust[n], inv[n].op)]
             /\ truth' = [truth EXCEPT ![n] = IF inv[n].op.kind = "Activate" THEN 0
                                              ELSE truth[n]]
    <3>1. ASSUME NEW m \in Members, m # n PROVE TrustOrdered(m)' /\ InvocationBacked(m)'
      <4>1. trust'[m] = trust[m] /\ truth'[m] = truth[m] /\ live'[m] = live[m]
            /\ inv'[m] = inv[m]
        BY <1>1, <1>3, <1>5, <2>2, <3>1, CommitView
      <4>2. TrustOrdered(m)'
        BY <1>1, <4>1 DEF RotationInv, TrustOrdered, Frozen
      <4>3. InvocationBacked(m)'
        BY <4>1 DEF RotationInv, InvocationBacked, Matches, Revision
      <4> QED
        BY <4>2, <4>3
    <3>2. TrustOrdered(n)'
      <4>1. /\ trust'[n].staged # None => Frozen(meta) /\ trust'[n].retirement = None
            /\ trust'[n].active = 2 => meta.active = 2
            /\ slot[n] <= trust'[n].active
            /\ trust'[n].active = 2 /\ trust'[n].retirement = None =>
                 truth'[n] = RetirementDrain
            /\ live[n].witness = None \/ truth'[n] = truth[n]
        BY <1>1, <2>2, CommitView
      <4>2. live'[n].witness # None =>
              live'[n].witness.age <= truth'[n] \/ truth'[n] = RetirementDrain
        BY <1>3, <4>1 DEF RotationInv, TrustOrdered
      <4> QED
        BY <1>1, <1>3, <4>1, <4>2 DEF TrustOrdered, Frozen
    <3>3. InvocationBacked(n)'
      <4>1. inv'[n] = None /\ \A op \in trust'[n].receipts : op.v = n
        <5>1. inv'[n] = None
          BY <1>5
        <5>2. \A op \in trust'[n].receipts : op.v = n
          BY <1>1, <2>2, CommitView
        <5> QED
          BY <5>1, <5>2
      <4> QED
        BY <4>1 DEF InvocationBacked
    <3>4. \A m \in Members : TrustOrdered(m)' /\ InvocationBacked(m)'
      BY <3>1, <3>2, <3>3
    <3>5. CoverageBacked'
      BY <1>1, <2>2, CommitView, CoverageGrows
    <3> QED
      BY <1>1, <2>2, <3>4, <3>5, CommitView
  <2> QED
    BY <1>2, <2>1, <2>2
<1>7. faults' \in 0 .. MaxFaults /\ meta' \in States
  BY <1>1, RotationAssumption DEF RotationInv, Shapes
<1>8. Bounded'
  BY <1>1, <1>4, <1>7, BoundsKeep
<1>9. Shapes'
  BY <1>1, <1>3, <1>5, <1>6, <1>7 DEF RotationInv, Shapes
<1> QED
  BY <1>1, <1>6, <1>8, <1>9, QuietGroup, QuietRequests DEF RotationInv

\* A key is reloaded for the generation the member's trust accepts.
LEMMA ReloadKeeps == ASSUME RotationInv, NEW n \in Members, Reload(n) PROVE RotationInv'
<1>1. /\ UNCHANGED <<meta, view, proposals, trust, live, truth, inv, observed, request, faults>>
      /\ slot' = [slot EXCEPT ![n] = trust[n].active]
  BY DEF Reload
<1>2. trust[n].active \in 1 .. 2 /\ slot \in [Members -> 1 .. 2]
  BY DEF RotationInv, Shapes, TrustRecords
<1>3. \A m \in Members : slot'[m] = IF m = n THEN trust[m].active ELSE slot[m]
  BY <1>1, <1>2
<1>4. \A m \in Members : TrustOrdered(m)'
  BY <1>1, <1>2, <1>3 DEF RotationInv, TrustOrdered, Frozen
<1>5. Shapes' /\ Bounded'
  BY <1>1, <1>2 DEF RotationInv, Shapes, Bounded, Marred
<1> QED
  BY <1>1, <1>4, <1>5, QuietGroup, QuietInvocations, QuietRequests, QuietCoverage
     DEF RotationInv

\* A change of leader alone.
LEMMA LeaderMoves ==
    ASSUME RotationInv, NEW n \in Members,
           meta' \in {meta, [meta EXCEPT !.leader = n, !.term = @ + 1]}
    PROVE  /\ meta' \in States /\ HeadOrdered(meta') /\ Reached(meta, meta')
           /\ meta'.epoch = meta.epoch /\ meta'.dispatch = meta.dispatch
           /\ meta'.ack = meta.ack /\ meta'.term \in {meta.term, meta.term + 1}
           /\ RosterCovers' /\ (meta.roster \subseteq meta.enrolled)'
<1>1. meta \in States
  BY DEF RotationInv, Shapes
<1>2. /\ meta' \in States
      /\ UNCHANGED <<meta.epoch, meta.staged, meta.retirement, meta.active, meta.roster,
                     meta.enrolled, meta.referenced, meta.dispatch, meta.ack>>
      /\ meta'.term \in {meta.term, meta.term + 1}
  <2>1. CASE meta' = meta
    BY <1>1, <2>1
  <2>2. CASE meta' = [meta EXCEPT !.leader = n, !.term = @ + 1]
    <3>1. meta.term + 1 \in Nat
      BY <1>1 DEF States
    <3> QED
      BY <1>1, <2>2, <3>1 DEF States
  <2> QED
    BY <2>1, <2>2
<1> QED
  BY <1>2 DEF RotationInv, ViewsBehind, HeadOrdered, Reached, Frozen, RosterCovers,
              RosterComplete

\* An election, after which the old leader may not know it is deposed, or a
\* member that catches up.
LEMMA ElectKeeps ==
    ASSUME RotationInv, NEW n \in Members, Elect(n) \/ CatchUp(n)
    PROVE  RotationInv'
<1>1. UNCHANGED <<proposals, trust, live, truth, slot, inv, observed, request, faults>>
  BY DEF Elect, CatchUp
<1>2. /\ meta' \in {meta, [meta EXCEPT !.leader = n, !.term = @ + 1]}
      /\ meta' = meta \/ meta.term < MaxTerm
  BY DEF Elect, CatchUp
<1>3. meta.leader \in Members /\ meta \in States /\ view \in [Members -> States \cup {None}]
  BY DEF RotationInv, Shapes, States
<1>4. /\ view' \in [Members -> States \cup {None}]
      /\ \A m \in Members : view'[m] \in {view[m], None, meta}
  <2>1. CASE Elect(n)
    <3>1. PICK stale \in {None, meta} :
             view' = [view EXCEPT ![n] = None, ![meta.leader] = stale]
      BY <2>1 DEF Elect
    <3> QED
      BY <1>3, <3>1
  <2>2. CASE CatchUp(n)
    BY <1>3, <2>2 DEF CatchUp
  <2> QED
    BY <2>1, <2>2
<1>5. ViewsBehind' /\ \A r \in Requests : RequestBacked(r)'
  BY <1>1, <1>2, <1>4, LeaderMoves, GroupMoves
<1>6. \A m \in Members : TrustOrdered(m)' /\ InvocationBacked(m)'
  BY <1>1, <1>2, LeaderMoves, TrustKeeps, QuietInvocations
<1>7. CoverageBacked'
  BY <1>1, <1>2, LeaderMoves, CoverageKeeps
<1>8. Bounded'
  <2>1. meta'.term = meta.term \/ (meta'.term = meta.term + 1 /\ meta'.term <= MaxTerm)
    <3>1. meta.term \in Nat /\ MaxTerm \in Nat
      BY <1>3, RotationAssumption DEF States
    <3>2. meta' = meta \/ meta'.term = meta.term + 1
      BY <1>2, <1>3 DEF States
    <3>3. CASE meta' = meta
      BY <3>3
    <3>4. CASE meta' # meta /\ meta'.term = meta.term + 1
      BY <1>2, <3>1, <3>4
    <3> QED
      BY <3>2, <3>3, <3>4
  <2>2. Marred(live') \subseteq Marred(live) /\ faults' \in 0 .. MaxFaults
    BY <1>1 DEF Marred, RotationInv, Shapes
  <2> QED
    BY <1>1, <1>2, <2>1, <2>2, LeaderMoves, BoundsKeep
<1>9. Shapes'
  BY <1>1, <1>2, <1>4, LeaderMoves DEF RotationInv, Shapes
<1> QED
  BY <1>2, <1>5, <1>6, <1>7, <1>8, <1>9, LeaderMoves DEF RotationInv

\* A restart: the durable record stays, the witness starts over, and what the
\* process was doing is gone.
LEMMA RestartKeeps == ASSUME RotationInv, NEW n \in Members, Restart(n) PROVE RotationInv'
<1> DEFINE w == NewWitness(trust[n])
           l == [closed |-> FALSE, witness |-> w]
<1>1. /\ UNCHANGED <<proposals, trust, truth, observed>>
      /\ live' = [live EXCEPT ![n] = l]
      /\ slot' = [slot EXCEPT ![n] = trust[n].active]
      /\ inv' = [inv EXCEPT ![n] = None]
      /\ request' = [r \in Requests |->
                       IF request[r] # None /\ request[r].node = n THEN None ELSE request[r]]
      /\ \/ live[n].closed /\ faults' = faults
         \/ faults < MaxFaults /\ faults' = faults + 1
  BY DEF Restart
<1>2. PICK k \in Members : meta' \in {meta, [meta EXCEPT !.leader = k, !.term = @ + 1]}
  BY DEF Restart
<1>3. /\ view' \in [Members -> States \cup {None}]
      /\ \A m \in Members : view'[m] \in {view[m], None, meta}
  BY DEF Restart, RotationInv, Shapes
<1>4. /\ w = None => trust[n].retirement = None
      /\ trust[n].retirement = None => w = None
      /\ w # None => w \in Witnesses /\ w.age = 0 /\ w.last = 0
      /\ w = None \/ w \in Witnesses
  BY NoneAssumption DEF NewWitness, Witnesses
<1> HIDE DEF w
<1>5. l \in LiveRecords /\ l.closed = FALSE /\ l.witness = w
  BY <1>4 DEF LiveRecords
<1> HIDE DEF l
<1>6. /\ live' \in [Members -> LiveRecords] /\ slot' \in [Members -> 1 .. 2]
      /\ inv' \in [Members -> Invocations \cup {None}]
      /\ request' \in [Requests -> LeaseRequests \cup {None}]
      /\ \A m \in Members : /\ live'[m] = IF m = n THEN l ELSE live[m]
                            /\ slot'[m] = IF m = n THEN trust[m].active ELSE slot[m]
                            /\ inv'[m] = IF m = n THEN None ELSE inv[m]
      /\ \A r \in Requests : request'[r] \in {request[r], None}
  BY <1>1, <1>5 DEF RotationInv, Shapes, TrustRecords
<1>7. /\ meta' \in States /\ HeadOrdered(meta') /\ Reached(meta, meta')
      /\ meta'.epoch = meta.epoch /\ meta'.dispatch = meta.dispatch
      /\ meta'.ack = meta.ack /\ meta'.term \in {meta.term, meta.term + 1}
      /\ RosterCovers' /\ (meta.roster \subseteq meta.enrolled)'
  BY <1>2, LeaderMoves
<1>8. ViewsBehind' /\ \A r \in Requests : RequestBacked(r)'
  BY <1>3, <1>6, <1>7, GroupMoves
<1>9. ASSUME NEW m \in Members PROVE TrustOrdered(m)'
  <2>0. /\ TrustOrdered(m) /\ trust[m].active \in 1 .. 2 /\ truth[m] \in 0 .. RetirementDrain
        /\ (Frozen(meta) => Frozen(meta')) /\ (meta.active = 2 => meta'.active = 2)
    BY <1>7 DEF RotationInv, Shapes, TrustRecords, ViewsBehind, HeadOrdered, Reached, Frozen
  <2>1. CASE m # n
    BY <1>1, <1>6, <2>0, <2>1 DEF TrustOrdered, Frozen
  <2>2. CASE m = n
    <3>1. live'[m].witness = w /\ slot'[m] = trust[m].active
      BY <1>5, <1>6, <2>2
    <3>2. w # None => w.age <= truth[m]
      BY <1>4, <2>0, RotationAssumption
    <3> QED
      BY <1>1, <1>4, <2>0, <2>2, <3>1, <3>2 DEF TrustOrdered, Frozen
  <2> QED
    BY <2>1, <2>2
<1>10. \A m \in Members : InvocationBacked(m)'
  BY <1>1, <1>6 DEF RotationInv, InvocationBacked, Matches, Revision
<1>11. CoverageBacked'
  BY <1>1, <1>7, CoverageKeeps
<1>12. /\ faults' \in 0 .. MaxFaults
       /\ \/ n \in Marred(live) /\ faults' = faults
          \/ faults' = faults + 1
  BY <1>1, RotationAssumption DEF RotationInv, Shapes, Marred
<1>13. Marred(live') \subseteq Marred(live) \ {n}
  <2>1. n \notin Marred(live')
    BY <1>4, <1>5, <1>6 DEF Marred
  <2> QED
    BY <1>6, <2>1 DEF Marred
<1>14. Bounded'
  BY <1>1, <1>7, <1>12, <1>13, BoundsKeep
<1>15. Shapes'
  BY <1>1, <1>3, <1>6, <1>7, <1>12 DEF RotationInv, Shapes
<1> QED
  BY <1>7, <1>8, <1>9, <1>10, <1>11, <1>14, <1>15 DEF RotationInv

----------------------------------------------------------------------------
(* Clocks *)

\* A clock that steps back costs a fault and only makes its witness wait longer.
LEMMA RegressKeeps == ASSUME RotationInv, NEW n \in Members, Regress(n) PROVE RotationInv'
<1>1. /\ UNCHANGED <<meta, view, proposals, trust, truth, slot, inv, observed, request>>
      /\ faults < MaxFaults /\ faults' = faults + 1 /\ live[n].witness # None
      /\ live' = [live EXCEPT ![n].witness.age = @ - 1]
  BY DEF Regress
<1> DEFINE w == live[n].witness
           x == [w EXCEPT !.age = w.age - 1]
<1>2. live \in [Members -> LiveRecords] /\ live[n] \in LiveRecords /\ w \in Witnesses
  BY <1>1 DEF RotationInv, Shapes, LiveRecords
<1>3. x \in Witnesses /\ x # None /\ x.age = w.age - 1 /\ w.age \in Int
  BY <1>2, NoneAssumption DEF Witnesses
<1>4. live' = [live EXCEPT ![n] = [live[n] EXCEPT !.witness = x]]
  BY <1>1, <1>2
<1> HIDE DEF x, w
<1>5. /\ live' \in [Members -> LiveRecords]
      /\ \A m \in Members :
           /\ m # n => live'[m] = live[m]
           /\ m = n => live'[m].closed = live[m].closed /\ live'[m].witness = x
  BY <1>2, <1>3, <1>4 DEF LiveRecords
<1>6. ASSUME NEW m \in Members PROVE TrustOrdered(m)'
  <2>1. CASE m # n
    BY <1>1, <1>5, <2>1 DEF RotationInv, TrustOrdered, Frozen
  <2>2. CASE m = n
    <3>1. TrustOrdered(n) /\ truth[n] \in 0 .. RetirementDrain
      BY DEF RotationInv, Shapes
    <3>2. x.age <= truth[n] \/ truth[n] = RetirementDrain
      <4>1. w.age <= truth[n] \/ truth[n] = RetirementDrain
        BY <1>1, <3>1 DEF TrustOrdered, w
      <4> QED
        BY <1>3, <3>1, <4>1, RotationAssumption
    <3> QED
      BY <1>1, <1>3, <1>5, <2>2, <3>1, <3>2 DEF TrustOrdered, Frozen, w
  <2> QED
    BY <2>1, <2>2
<1>7. Marred(live') \subseteq Marred(live) \cup {n}
  BY <1>5 DEF Marred
<1>8. faults' \in 0 .. MaxFaults /\ meta' \in States
  BY <1>1, RotationAssumption DEF RotationInv, Shapes
<1>9. Bounded'
  BY <1>1, <1>7, <1>8, BoundsKeep
<1>10. Shapes'
  BY <1>1, <1>5, <1>8 DEF RotationInv, Shapes
<1> QED
  BY <1>1, <1>6, <1>9, <1>10, QuietGroup, QuietInvocations, QuietRequests, QuietCoverage
     DEF RotationInv

\* Time passes for a witness no faster than it really does.
LEMMA TickKeeps == ASSUME RotationInv, Tick PROVE RotationInv'
<1>1. /\ UNCHANGED <<meta, view, proposals, trust, slot, inv, observed, request, faults>>
      /\ truth' = [m \in Members |-> IF truth[m] < RetirementDrain THEN truth[m] + 1
                                     ELSE truth[m]]
      /\ live' = [m \in Members |->
                    IF live[m].witness = None \/ live[m].witness.age = AgeCap THEN live[m]
                    ELSE [live[m] EXCEPT !.witness.age = @ + 1]]
  BY DEF Tick
<1>2. RetirementDrain \in Nat
  BY RotationAssumption
<1>3. ASSUME NEW m \in Members
      PROVE  /\ truth'[m] \in 0 .. RetirementDrain
             /\ truth[m] = RetirementDrain => truth'[m] = RetirementDrain
             /\ truth'[m] = RetirementDrain \/ truth'[m] = truth[m] + 1
  <2>1. truth[m] \in 0 .. RetirementDrain
    BY DEF RotationInv, Shapes
  <2> QED
    BY <1>1, <1>2, <2>1
<1>4. ASSUME NEW m \in Members
      PROVE  /\ live'[m] \in LiveRecords /\ live'[m].closed = live[m].closed
             /\ live'[m].witness = None <=> live[m].witness = None
             /\ live[m].witness # None =>
                  /\ live[m].witness \in Witnesses
                  /\ live'[m].witness.last = live[m].witness.last
                  /\ live'[m].witness.age \in {live[m].witness.age, live[m].witness.age + 1}
  <2>1. live[m] \in LiveRecords
    BY DEF RotationInv, Shapes
  <2>2. CASE live'[m] = live[m]
    BY <2>1, <2>2 DEF LiveRecords
  <2>3. CASE live[m].witness # None /\ live'[m] = [live[m] EXCEPT !.witness.age = @ + 1]
    <3> DEFINE w == live[m].witness
               x == [w EXCEPT !.age = w.age + 1]
    <3>1. w \in Witnesses
      BY <2>1, <2>3 DEF LiveRecords
    <3>2. x \in Witnesses /\ x # None /\ x.age = w.age + 1 /\ x.last = w.last
      BY <3>1, NoneAssumption DEF Witnesses
    <3>3. live'[m] = [live[m] EXCEPT !.witness = x]
      BY <2>3
    <3> HIDE DEF x
    <3> QED
      BY <2>1, <2>3, <3>1, <3>2, <3>3 DEF LiveRecords
  <2> QED
    BY <1>1, <2>2, <2>3
<1>5. live' \in [Members -> LiveRecords] /\ truth' \in [Members -> 0 .. RetirementDrain]
  BY <1>1, <1>3, <1>4
<1>6. ASSUME NEW m \in Members PROVE TrustOrdered(m)'
  <2>1. TrustOrdered(m) /\ truth[m] \in 0 .. RetirementDrain
    BY DEF RotationInv, Shapes
  <2>2. live'[m].witness # None =>
          live'[m].witness.age <= truth'[m] \/ truth'[m] = RetirementDrain
    <3> SUFFICES ASSUME live[m].witness # None, truth'[m] # RetirementDrain
                 PROVE  live'[m].witness.age <= truth'[m]
      BY <1>4
    <3>1. live[m].witness.age <= truth[m] /\ truth'[m] = truth[m] + 1
      BY <1>3, <2>1 DEF TrustOrdered
    <3>2. live[m].witness.age \in Int
      BY <1>4 DEF Witnesses
    <3>3. live'[m].witness.age \in {live[m].witness.age, live[m].witness.age + 1}
      BY <1>4
    <3> QED
      BY <2>1, <3>1, <3>2, <3>3
  <2> QED
    BY <1>1, <1>3, <1>4, <2>1, <2>2 DEF TrustOrdered, Frozen
<1>7. \A m \in Members : InvocationBacked(m)'
  BY <1>1, <1>3 DEF RotationInv, InvocationBacked, Matches, Revision
<1>8. Marred(live') \subseteq Marred(live)
  <2> SUFFICES ASSUME NEW m \in Members, m \in Marred(live'), ~live[m].closed
               PROVE  m \in Marred(live)
    BY DEF Marred
  <2>1. /\ live[m].witness # None /\ live[m].witness \in Witnesses
        /\ live'[m].witness.age < live'[m].witness.last
        /\ live'[m].witness.last = live[m].witness.last
        /\ live'[m].witness.age \in {live[m].witness.age, live[m].witness.age + 1}
    BY <1>4 DEF Marred
  <2>2. live[m].witness.age < live[m].witness.last
    BY <2>1 DEF Witnesses
  <2> QED
    BY <2>1, <2>2 DEF Marred
<1>9. faults' \in 0 .. MaxFaults /\ meta' \in States
  BY <1>1 DEF RotationInv, Shapes
<1>10. Bounded'
  BY <1>1, <1>8, <1>9, BoundsKeep
<1>11. Shapes'
  BY <1>1, <1>5 DEF RotationInv, Shapes
<1> QED
  BY <1>1, <1>6, <1>7, <1>10, <1>11, QuietGroup, QuietRequests, QuietCoverage DEF RotationInv

----------------------------------------------------------------------------
(* Proposals and coverage *)

\* A proposal that nobody waits for in order: an administrator's, or one of the
\* coverage caller, who acknowledges only what it observed.
LEMMA ProposalKeeps ==
    ASSUME RotationInv,
           \/ \E cmd \in Globals : ProposeGlobal(cmd)
           \/ \E v \in Covered : Coverage(v)
    PROVE  RotationInv'
<1>1. UNCHANGED <<meta, view, trust, live, truth, slot, inv, request, faults>>
  BY DEF ProposeGlobal, Coverage, StartCoverage, CoveragePermission, Acknowledge
<1>2. Covered \subseteq Members
  BY RotationAssumption
<1>3. /\ observed' \in [Members -> Ops \cup {None}]
      /\ \A v \in Members : observed'[v] \in {observed[v], None}
      /\ \E cmd \in Globals \cup OpCommands :
            /\ Propose(cmd)
            /\ cmd.type = "Acknowledge" => Activated(cmd.op.v, cmd.op)
  <2>1. ASSUME NEW cmd \in Globals, ProposeGlobal(cmd)
        PROVE  Propose(cmd) /\ observed' = observed /\ cmd.type # "Acknowledge"
    BY <2>1 DEF ProposeGlobal, Globals
  <2>2. ASSUME NEW op \in Ops, StartCoverage(op)
        PROVE  /\ Propose([type |-> "Begin", op |-> op]) /\ observed' = observed
               /\ [type |-> "Begin", op |-> op] \in OpCommands
    BY <2>2 DEF StartCoverage, OpCommands
  <2>3. ASSUME NEW v \in Covered, CoveragePermission(v)
        PROVE  /\ Propose([type |-> "AuthorizeSignerTrust", op |-> meta.dispatch[v]])
               /\ [type |-> "AuthorizeSignerTrust", op |-> meta.dispatch[v]] \in OpCommands
               /\ observed' = observed
    BY <1>2, <2>3 DEF CoveragePermission, OpCommands, RotationInv, Shapes, States
  <2>4. ASSUME NEW v \in Covered, Acknowledge(v)
        PROVE  /\ Propose([type |-> "Acknowledge", op |-> observed[v]])
               /\ [type |-> "Acknowledge", op |-> observed[v]] \in OpCommands
               /\ Activated(observed[v].v, observed[v])
               /\ observed' = [observed EXCEPT ![v] = None]
    BY <1>2, <2>4 DEF Acknowledge, OpCommands, RotationInv, Shapes, CoverageBacked
  <2>5. observed \in [Members -> Ops \cup {None}]
    BY DEF RotationInv, Shapes
  <2>6. CASE \E cmd \in Globals : ProposeGlobal(cmd)
    BY <2>1, <2>5, <2>6
  <2>7. CASE \E v \in Covered : \E op \in Ops : StartCoverage(op)
    <3>1. PICK op \in Ops : StartCoverage(op)
      BY <2>7
    <3>2. [type |-> "Begin", op |-> op].type # "Acknowledge"
      OBVIOUS
    <3> QED
      BY <2>2, <2>5, <3>1, <3>2
  <2>8. CASE \E v \in Covered : CoveragePermission(v)
    <3>1. PICK v \in Covered : CoveragePermission(v)
      BY <2>8
    <3>2. [type |-> "AuthorizeSignerTrust", op |-> meta.dispatch[v]].type # "Acknowledge"
      OBVIOUS
    <3> QED
      BY <2>3, <2>5, <3>1, <3>2
  <2>9. CASE \E v \in Covered : Acknowledge(v)
    <3>1. PICK v \in Covered : Acknowledge(v)
      BY <2>9
    <3>2. [type |-> "Acknowledge", op |-> observed[v]].op = observed[v]
      OBVIOUS
    <3> QED
      BY <1>2, <2>4, <2>5, <3>1, <3>2
  <2> QED
    BY <2>6, <2>7, <2>8, <2>9 DEF Coverage
<1>4. PICK cmd \in Globals \cup OpCommands :
         /\ Propose(cmd)
         /\ cmd.type = "Acknowledge" => Activated(cmd.op.v, cmd.op)
  BY <1>3
<1>5. /\ proposals' \subseteq Entries
      /\ IsFiniteSet(proposals') /\ Cardinality(proposals') <= MaxPending
      /\ \A p \in proposals' : p \in proposals \/ p.cmd = cmd
  BY <1>4, ProposeView
<1>6. CoverageBacked'
  <2>1. \A v, op : Activated(v, op)' <=> Activated(v, op)
    BY <1>1 DEF Activated
  <2>2. \A p \in proposals' : p.cmd.type = "Acknowledge" => Activated(p.cmd.op.v, p.cmd.op)
    BY <1>4, <1>5 DEF RotationInv, CoverageBacked
  <2> QED
    BY <1>1, <1>3, <2>1, <2>2 DEF RotationInv, CoverageBacked, Activated
<1>7. /\ meta.epoch \in 1 .. MaxEpoch /\ faults' \in 0 .. MaxFaults /\ faults <= faults'
  BY <1>1, RotationAssumption DEF RotationInv, Bounded, Shapes
<1>8. Bounded'
  BY <1>1, <1>5, <1>7, QuietBounds
<1>9. Shapes'
  BY <1>1, <1>3, <1>5 DEF RotationInv, Shapes
<1> QED
  BY <1>1, <1>6, <1>8, <1>9, QuietGroup, QuietTrust, QuietInvocations, QuietRequests
     DEF RotationInv

----------------------------------------------------------------------------
(* Leases *)

\* The head a release barrier saw decides: a signer whose generation is current
\* and unchallenged afterwards was so at the barrier.
LEMMA ReleaseView ==
    ASSUME RotationInv, NEW r \in Requests, ReleaseCheck(r)
    PROVE  request[r].seen = [staged |-> FALSE, active |-> request[r].gen]
<1> DEFINE q == request[r]
           m == View(q.node)
<1>1. /\ q \in LeaseRequests /\ q.phase = "fenced" /\ RequestBacked(r) /\ q # None
  BY DEF ReleaseCheck, RotationInv, Shapes
<1>2. q.node \in Members /\ q.gen \in 1 .. 2
  BY <1>1 DEF LeaseRequests
<1>3. m.active = q.gen /\ ~m.staged
  BY DEF ReleaseCheck, IssuanceSigner, ActiveSigner
<1>4. m \in States /\ HeadOrdered(m)
  BY <1>2, ViewReached
<1> HIDE DEF m
<1>5. /\ q.seen \in Seen /\ (q.gen = 2 => q.seen.active = 2)
      /\ (q.seen.active = 2 => ~q.seen.staged) /\ Reached(q.seen, m)
  BY <1>1 DEF RequestBacked, m
<1> HIDE DEF q
<1>6. q.seen.staged \in BOOLEAN /\ q.seen.active \in 1 .. 2
      /\ q.seen = [staged |-> q.seen.staged, active |-> q.seen.active]
  BY <1>5 DEF Seen
<1>7. q.seen.active = q.gen
  BY <1>2, <1>3, <1>5, <1>6 DEF Reached
<1>8. q.seen.staged = FALSE
  BY <1>3, <1>4, <1>5, <1>6, <1>7 DEF Reached, HeadOrdered, Frozen
<1>9. q.seen = [staged |-> FALSE, active |-> q.gen]
  BY <1>6, <1>7, <1>8
<1> QED
  BY <1>9 DEF q

\* The steps of a lease.
LEMMA LeaseKeeps == ASSUME RotationInv, NEW r \in Requests, Lease(r) PROVE RotationInv'
<1>1. UNCHANGED <<meta, view, proposals, trust, live, truth, slot, inv, observed, faults>>
  BY DEF Lease, Capture, Observe, Sign, ReleaseBarrier, ReleaseCheck, Drop
<1>2. /\ request \in [Requests -> LeaseRequests \cup {None}]
      /\ request[r] # None => request[r] \in LeaseRequests
      /\ RequestBacked(r) /\ meta \in States /\ HeadOrdered(meta)
  BY DEF RotationInv, Shapes, ViewsBehind
<1> DEFINE B(x) ==
              /\ x.gen = 2 => meta.active = 2
              /\ x.phase \in {"fenced", "released"} =>
                   /\ x.seen \in Seen /\ (x.gen = 2 => x.seen.active = 2)
                   /\ x.seen.active = 2 => ~x.seen.staged
                   /\ Reached(x.seen, View(x.node))
              /\ x.phase = "released" => x.seen = [staged |-> FALSE, active |-> x.gen]
           Backed == /\ request' \in [Requests -> LeaseRequests \cup {None}]
                     /\ \A s \in Requests : RequestBacked(s)'
<1>3. ASSUME NEW x \in LeaseRequests \cup {None}, request' = [request EXCEPT ![r] = x],
             x # None => B(x)
      PROVE  Backed
  <2>1. /\ request' \in [Requests -> LeaseRequests \cup {None}]
        /\ \A s \in Requests : request'[s] = IF s = r THEN x ELSE request[s]
    BY <1>2, <1>3
  <2>2. RequestBacked(r)'
    <3>1. request'[r] = x
      BY <2>1
    <3> QED
      BY <1>1, <1>3, <3>1 DEF RequestBacked, View, Reached, Frozen
  <2>3. ASSUME NEW s \in Requests, s # r PROVE RequestBacked(s)'
    BY <1>1, <2>1, <2>3 DEF RotationInv, RequestBacked, View, Reached, Frozen
  <2> QED
    BY <2>1, <2>2, <2>3
<1>4. ASSUME Capture(r) PROVE Backed
  <2> DEFINE x == [node |-> meta.leader, gen |-> slot[meta.leader], phase |-> "captured",
                   term |-> 0, seen |-> None]
  <2>1. meta.leader \in Members /\ slot[meta.leader] \in 1 .. 2
    BY DEF RotationInv, Shapes, States
  <2>2. slot[meta.leader] = 2 => meta.active = 2
    BY <2>1 DEF RotationInv, Shapes, TrustOrdered, TrustRecords
  <2>3. x \in LeaseRequests /\ x.phase = "captured" /\ x.gen = slot[meta.leader]
    BY <2>1 DEF LeaseRequests
  <2>4. request' = [request EXCEPT ![r] = x]
    BY <1>4 DEF Capture
  <2> HIDE DEF x
  <2>5. B(x)
    BY <2>2, <2>3
  <2> HIDE DEF B, Backed
  <2> QED
    BY <1>3, <2>3, <2>4, <2>5
<1>5. ASSUME Observe(r) PROVE Backed
  <2> DEFINE x == [request[r] EXCEPT !.phase = "viewed", !.term = meta.term]
  <2>1. request[r] # None /\ request' = [request EXCEPT ![r] = x]
    BY <1>2, <1>5 DEF Observe
  <2>2. x \in LeaseRequests /\ x.phase = "viewed" /\ x.gen = request[r].gen
    BY <1>2, <2>1 DEF LeaseRequests, States
  <2> HIDE DEF x
  <2>3. B(x)
    BY <1>2, <2>1, <2>2 DEF RequestBacked
  <2> HIDE DEF B, Backed
  <2> QED
    BY <1>3, <2>1, <2>2, <2>3
<1>6. ASSUME Sign(r) PROVE Backed
  <2> DEFINE x == [request[r] EXCEPT !.phase = "signed"]
  <2>1. request[r] # None /\ request' = [request EXCEPT ![r] = x]
    BY <1>2, <1>6 DEF Sign
  <2>2. x \in LeaseRequests /\ x.phase = "signed" /\ x.gen = request[r].gen
    BY <1>2, <2>1 DEF LeaseRequests
  <2> HIDE DEF x
  <2>3. B(x)
    BY <1>2, <2>1, <2>2 DEF RequestBacked
  <2> HIDE DEF B, Backed
  <2> QED
    BY <1>3, <2>1, <2>2, <2>3
<1>7. ASSUME ReleaseBarrier(r) PROVE Backed
  <2> DEFINE h == [staged |-> meta.staged, active |-> meta.active]
             x == [request[r] EXCEPT !.phase = "fenced", !.seen = h]
  <2>1. request[r] # None /\ request' = [request EXCEPT ![r] = x]
        /\ view[request[r].node] = None
    BY <1>2, <1>7 DEF ReleaseBarrier, Barrier
  <2>2. h \in Seen /\ h.staged = meta.staged /\ h.active = meta.active
    BY <1>2 DEF Seen, States
  <2> HIDE DEF h
  <2>3. /\ x \in LeaseRequests /\ x.phase = "fenced" /\ x.gen = request[r].gen
        /\ x.seen = h /\ x.node = request[r].node
    BY <1>2, <2>1, <2>2 DEF LeaseRequests
  <2> HIDE DEF x
  <2>4. View(x.node) = meta
    BY <2>1, <2>3 DEF View
  <2>5. Reached(h, meta) /\ (h.active = 2 => ~h.staged)
    BY <1>2, <2>2 DEF Reached, HeadOrdered, Frozen
  <2>6. x.gen = 2 => meta.active = 2
    BY <1>2, <2>1, <2>3 DEF RequestBacked
  <2>7. B(x)
    BY <2>2, <2>3, <2>4, <2>5, <2>6
  <2> HIDE DEF B, Backed
  <2> QED
    BY <1>3, <2>1, <2>3, <2>7
<1>8. ASSUME ReleaseCheck(r) PROVE Backed
  <2> DEFINE x == [request[r] EXCEPT !.phase = "released"]
  <2>1. /\ request[r] # None /\ request' = [request EXCEPT ![r] = x]
        /\ request[r].phase = "fenced"
    BY <1>2, <1>8 DEF ReleaseCheck
  <2>2. /\ x \in LeaseRequests /\ x.phase = "released" /\ x.gen = request[r].gen
        /\ x.seen = request[r].seen /\ x.node = request[r].node
    BY <1>2, <2>1 DEF LeaseRequests
  <2>3. request[r].seen = [staged |-> FALSE, active |-> request[r].gen]
    BY <1>8, ReleaseView
  <2> HIDE DEF x
  <2>4. B(x)
    BY <1>2, <2>1, <2>2, <2>3 DEF RequestBacked
  <2> HIDE DEF B, Backed
  <2> QED
    BY <1>3, <2>1, <2>2, <2>4
<1> HIDE DEF B, Backed
<1>9. ASSUME Drop(r) PROVE Backed
  BY <1>3, <1>9 DEF Drop
<1>10. Backed
  BY <1>4, <1>5, <1>6, <1>7, <1>8, <1>9 DEF Lease
<1>11. Shapes' /\ Bounded'
  BY <1>1, <1>10 DEF Backed, RotationInv, Shapes, Bounded, Marred
<1> QED
  BY <1>1, <1>10, <1>11, QuietGroup, QuietTrust, QuietInvocations, QuietCoverage
     DEF RotationInv, Backed

----------------------------------------------------------------------------
(* The theorems *)

\* The invariant holds of a rotation that has not begun ...
LEMMA RotationInit == Init => RotationInv
<1> SUFFICES ASSUME Init PROVE RotationInv
  OBVIOUS
<1>1. PICK n \in Members :
        meta = [active |-> 1, staged |-> FALSE, retirement |-> FALSE, roster |-> {},
                enrolled |-> Enrolled, referenced |-> {}, epoch |-> 1, term |-> 1, leader |-> n,
                ops |-> <<>>, dispatch |-> [v \in Members |-> None],
                marker |-> [v \in Members |-> FALSE], ack |-> [v \in Members |-> FALSE]]
  BY DEF Init
<1>2. <<>> \in UNION {[D -> Statuses] : D \in SUBSET Ops}
  <2>1. <<>> \in [{} -> Statuses] /\ {} \in SUBSET Ops
    OBVIOUS
  <2> QED
    BY <2>1
<1>3. Enrolled \in SUBSET Verifiers /\ {} \in SUBSET Verifiers /\ {} \in SUBSET Others
  BY RotationAssumption DEF Verifiers
<1>4. meta \in States
  <2>1. /\ [v \in Members |-> None] \in [Members -> Ops \cup {None}]
        /\ [v \in Members |-> FALSE] \in [Members -> BOOLEAN]
        /\ 1 \in 1 .. 2 /\ 1 \in Nat /\ FALSE \in BOOLEAN
    OBVIOUS
  <2> QED
    BY <1>1, <1>2, <1>3, <2>1 DEF States
<1>5. Shapes
  BY <1>4, RotationAssumption DEF Init, Shapes, TrustRecords, LiveRecords
<1>6. ViewsBehind /\ RosterCovers /\ meta.roster \subseteq meta.enrolled
  BY <1>1 DEF Init, ViewsBehind, HeadOrdered, RosterCovers, Frozen
<1>7. CoverageBacked
  BY <1>1 DEF Init, CoverageBacked
<1>8. \A m \in Members : TrustOrdered(m) /\ InvocationBacked(m)
  BY DEF Init, TrustOrdered, InvocationBacked
<1>9. \A r \in Requests : RequestBacked(r)
  BY DEF Init, RequestBacked
<1>10. Bounded
  <2>1. Marred(live) = {} /\ proposals = {} /\ faults = 0 /\ meta.term = 1 /\ meta.epoch = 1
    BY <1>1 DEF Init, Marred
  <2> QED
    BY <2>1, FS_EmptySet, RotationAssumption DEF Bounded
<1> QED
  BY <1>5, <1>6, <1>7, <1>8, <1>9, <1>10 DEF RotationInv

\* ... and every step keeps it.
LEMMA RotationNext == RotationInv /\ [Next]_vars => RotationInv'
<1> SUFFICES ASSUME RotationInv, [Next]_vars PROVE RotationInv'
  OBVIOUS
<1>1. CASE UNCHANGED vars
  <2>1. UNCHANGED <<meta, view, proposals, trust, live, truth, slot, inv, observed, request,
                    faults>>
    BY <1>1 DEF vars
  <2>2. Shapes' /\ Bounded'
    BY <2>1 DEF RotationInv, Shapes, Bounded, Marred
  <2> QED
    BY <2>1, <2>2, QuietGroup, QuietTrust, QuietInvocations, QuietRequests, QuietCoverage
       DEF RotationInv
<1>2. CASE ApplyEntry \/ \E p \in proposals : LoseProposal(p)
  BY <1>2, MaintenanceKeeps, CoverageEntryKeeps, NothingKeeps DEF ApplyEntry
<1>3. ASSUME NEW n \in Members, Member(n) PROVE RotationInv'
  BY <1>3, CallerKeeps, ReplyKeeps, PrepareKeeps, CommitKeeps, UncertainKeeps, ReloadKeeps,
     ElectKeeps, RestartKeeps, RegressKeeps DEF Member, Invocation
<1> QED
  BY <1>1, <1>2, <1>3, ReferenceKeeps, ProposalKeeps, LeaseKeeps, TickKeeps DEF Next

\* A member's durable trust never runs ahead of the group, and no member retires
\* the old generation before the whole interval has really passed since it
\* activated the new one: whatever crash, clock jump, uncertain commit, replay or
\* deposed leader came between, for any number of members.
THEOREM TrustIsNeverEarly == Spec => []TrustNeverEarly
<1>1. RotationInv => TrustNeverEarly
  <2> SUFFICES ASSUME RotationInv PROVE TrustNeverEarly
    OBVIOUS
  <2>1. LocalFollowsGlobal /\ DrainedInFull
    BY DEF RotationInv, TrustOrdered, LocalFollowsGlobal, DrainedInFull
  <2>2. meta.term \in 1 .. MaxTerm + MaxFaults
    <3>1. /\ Cardinality(Marred(live)) \in Nat
          /\ meta.term + Cardinality(Marred(live)) <= MaxTerm + faults
          /\ meta.term \in Nat /\ meta.term >= 1
          /\ faults \in 0 .. MaxFaults
      BY MarredCounts DEF RotationInv, Bounded, Shapes, States
    <3> QED
      BY <3>1, RotationAssumption
  <2>3. DOMAIN meta.ops \subseteq Ops
    BY DEF RotationInv, Shapes, States
  <2>4. /\ meta.active \in 1 .. 2 /\ meta.staged \in BOOLEAN /\ meta.retirement \in BOOLEAN
        /\ meta.enrolled \subseteq Verifiers /\ meta.referenced \subseteq Others
        /\ meta.roster \subseteq meta.enrolled
    BY DEF RotationInv, Shapes, States
  <2>5. ASSUME NEW n \in Members
        PROVE  /\ trust[n].active \in 1 .. 2 /\ trust[n].receipts \subseteq Ops
               /\ slot[n] \in 1 .. 2 /\ truth[n] \in 0 .. RetirementDrain
               /\ inv[n] # None => inv[n].op \in Ops
               /\ ~live[n].closed => (live[n].witness = None) <=> (trust[n].retirement = None)
    BY DEF RotationInv, Shapes, TrustRecords, Invocations, TrustOrdered
  <2>6. /\ meta.epoch \in 1 .. MaxEpoch /\ faults \in 0 .. MaxFaults
        /\ Cardinality(proposals) <= MaxPending
    BY DEF RotationInv, Shapes, Bounded
  <2> QED
    BY <2>1, <2>2, <2>3, <2>4, <2>5, <2>6 DEF TrustNeverEarly, TypeOK
<1> QED
  BY <1>1, RotationInit, RotationNext, PTL DEF Spec

\* The frozen roster names everybody who must learn of the successor, and an
\* acknowledged member has activated it under exactly the operation its dispatch
\* names, however entries of the log are reordered, replayed or lost.
THEOREM CoverageIsSound == Spec => []CoverageSound
<1>1. RotationInv => CoverageSound
  BY DEF RotationInv, CoverageBacked, Activated, CoverageSound, CoverageIsTrue
<1> QED
  BY <1>1, RotationInit, RotationNext, PTL DEF Spec

\* A lease that reaches its caller is signed by the generation that was current,
\* with no successor staged, when its release barrier completed: also when its
\* leader is deposed and does not know, or reloads its key, in between.
THEOREM LeasesAreCurrent == Spec => []IssuedUnderCurrentGeneration
<1>1. RotationInv => IssuedUnderCurrentGeneration
  BY DEF RotationInv, RequestBacked, IssuedUnderCurrentGeneration
<1> QED
  BY <1>1, RotationInit, RotationNext, PTL DEF Spec
=============================================================================
