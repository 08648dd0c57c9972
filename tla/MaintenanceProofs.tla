-------------------------- MODULE MaintenanceProofs --------------------------
(***************************************************************************)
(* The records of a partition lead its Raft membership, and a revocation   *)
(* is complete only once it was waited for: for any number of members,     *)
(* operations, elections and failed calls.                                 *)
(***************************************************************************)
EXTENDS Maintenance, SequenceTheorems, TLAPS

Phases == Open \cup Terminal \cup {None}

Metas ==
    [phase : [Ops -> Phases], drawn : [Ops -> {"no", "fresh", "stale"}],
     pending : Ops \cup {None}, voters : SUBSET Nodes, members : SUBSET Nodes,
     revoked : SUBSET Nodes, capacity : Nat]
Entries ==
    [kind : Writes, op : Ops, term : Nat, log : Nat]
      \cup [kind : {"Membership"}, config : [joint : Seq(SUBSET Nodes), nodes : SUBSET Nodes],
            op : Ops, term : Nat, log : Nat]
Ats == {"preflight", "ready", "effect", "second", "joining", "drain", "wait"} \cup Writes
Calls == [op : Ops, term : Nat, at : Ats, need : [who : SUBSET Nodes, size : Nat]]
Drains == [op : Ops, term : Nat, age : 0 .. Drain]

Shapes ==
    /\ meta \in Metas /\ tail \in Seq(Entries)
    /\ config \in [joint : Seq(SUBSET Nodes), nodes : SUBSET Nodes]
    /\ leader \in Leaders /\ term \in 1 .. MaxTerm
    /\ call \in [Nodes -> Calls \cup {None}]
    /\ floor \in [Nodes -> Nat]
    /\ witness \in [Nodes -> Drains \cup {None}]
    /\ truth \in 0 .. Drain /\ effects \subseteq Ops /\ faults \in 0 .. MaxFaults

Held == {tail[i] : i \in DOMAIN tail}

\* Past its dispatch.
Begun == {"Dispatched", "Draining", "Completed"}

\* What the records say of an operation, by its phase.
RecordsBacked ==
    /\ meta.voters \subseteq meta.members /\ meta.members \cap meta.revoked = {}
    /\ \A op \in Ops :
         /\ Phase(op) \in {"Prepared", "Dispatched"} =>
              /\ op.kind = "ReplaceVoters" => op.voters \subseteq meta.members
              /\ op.kind = "RevokeMember" => op.node \in meta.members \ meta.voters
         /\ op.kind = "EnrollLearner" =>
              /\ Phase(op) = "Prepared" => op.node \notin meta.revoked
              /\ Phase(op) \in Begun => op.node \in meta.members \cup meta.revoked
         /\ Phase(op) = "Draining" => op.kind = "RevokeMember"

\* Whoever must acknowledge what operation op needs, as configured now, has.
Acknowledged(op) ==
    \A m \in Required(meta, op).who : floor[m] >= Required(meta, op).size

\* What a Begin, a Dispatch and a CompleteDrain rest on still holds wherever they
\* have an effect.
BeginBacked(op) == meta.drawn[op] # "no" /\ (meta.drawn[op] = "fresh" => Acknowledged(op))
DispatchBacked(op) == Phase(op) # None /\ (Phase(op) = "Prepared" => Acknowledged(op))
DrainBacked(op) ==
    Phase(op) \in {"Draining", "Completed"} /\ (Phase(op) = "Draining" => truth = Drain)

\* What a call has established by the await it stands at.
CallBacked(c) ==
    /\ c.term \in 1 .. term
    /\ c.at = "preflight" =>
         meta.drawn[c.op] # "no" /\ (meta.drawn[c.op] = "fresh" => c.need = Required(meta, c.op))
    /\ c.at = "ready" =>
         Phase(c.op) # None /\ (Phase(c.op) = "Prepared" => c.need = Required(meta, c.op))
    /\ c.at = "Begin" => BeginBacked(c.op)
    /\ c.at = "Dispatch" => DispatchBacked(c.op)
    /\ c.at \in {"effect", "second", "joining", "Finish"} => Phase(c.op) \in Begun
    /\ c.at = "drain" => Phase(c.op) \in {"Draining", "Completed"}
    /\ c.at = "CompleteDrain" => DrainBacked(c.op)

EntryBacked(e) ==
    /\ e.kind = "Begin" => BeginBacked(e.op)
    /\ e.kind = "Dispatch" => DispatchBacked(e.op)
    /\ e.kind = "CompleteDrain" => DrainBacked(e.op)
    /\ e.kind = "Membership" =>
         /\ Len(e.config.joint) \in 1 .. 2
         /\ e.config.nodes \subseteq meta.members \cup meta.revoked

\* A witness is for an operation that drains, and not ahead of the time that passed.
WitnessBacked(w) ==
    /\ Phase(w.op) \in {"Draining", "Completed"}
    /\ Phase(w.op) = "Draining" => w.age <= truth

MaintenanceInv ==
    /\ Shapes /\ RecordsBacked /\ PendingIsTheOpenOne
    /\ \A i, j \in Memberships(tail) : i = j
    /\ \A e \in Held : EntryBacked(e)
    /\ \A n \in Nodes : call[n] # None => CallBacked(call[n])
    /\ \A n \in Nodes : witness[n] # None => WitnessBacked(witness[n])
    /\ Len(config.joint) \in 1 .. 2 /\ config.nodes \subseteq meta.members \cup meta.revoked
    /\ \A op \in effects : Phase(op) \in Begun
    /\ MembersFit /\ RevocationDrained

----------------------------------------------------------------------------
(* The reducer *)

SameRecords ==
    /\ meta'.voters = meta.voters /\ meta'.members = meta.members
    /\ meta'.revoked = meta.revoked /\ meta'.capacity = meta.capacity

\* Operation o, the only one that may be open, goes from phase p to phase q.
Moves(o, p, q) ==
    /\ Phase(o) = p
    /\ \A x \in Ops \ {o} : Phase(x) \notin Open
    /\ meta'.phase = [meta.phase EXCEPT ![o] = q]
    /\ meta'.pending = IF q \in Open THEN o ELSE None
    /\ meta'.drawn = [x \in Ops |-> IF meta.drawn[x] = "no" THEN "no" ELSE "stale"]

\* What one entry may do to the records.
Transition(o) ==
    \/ Moves(o, None, "Rejected") /\ SameRecords
    \/ /\ Moves(o, None, "Prepared") /\ SameRecords
       /\ Startable(meta, o) /\ o.kind # "SetCapacity"
    \/ /\ Moves(o, None, "Completed") /\ o.kind = "SetCapacity" /\ Acknowledged(o)
       /\ meta'.capacity = o.size /\ meta'.voters = meta.voters
       /\ meta'.members = meta.members /\ meta'.revoked = meta.revoked
    \/ Moves(o, "Prepared", "Stopped") /\ SameRecords
    \/ /\ Moves(o, "Prepared", "Dispatched") /\ Acknowledged(o)
       /\ meta'.members = IF o.kind = "EnrollLearner" THEN meta.members \cup {o.node} ELSE meta.members
       /\ meta'.voters = meta.voters /\ meta'.revoked = meta.revoked /\ meta'.capacity = meta.capacity
    \/ Moves(o, "Dispatched", "Completed") /\ o.kind = "EnrollLearner" /\ SameRecords
    \/ /\ Moves(o, "Dispatched", "Completed") /\ o.kind = "ReplaceVoters"
       /\ meta'.voters = o.voters /\ meta'.members = meta.members
       /\ meta'.revoked = meta.revoked /\ meta'.capacity = meta.capacity
    \/ /\ Moves(o, "Dispatched", "Draining") /\ o.kind = "RevokeMember"
       /\ meta'.members = meta.members \ {o.node} /\ meta'.revoked = meta.revoked \cup {o.node}
       /\ meta'.voters = meta.voters /\ meta'.capacity = meta.capacity
    \/ Moves(o, "Draining", "Completed") /\ SameRecords /\ truth = Drain

\* The fields of a record that was moved to another phase.
LEMMA InPhaseIs ==
    ASSUME NEW m \in Metas, NEW o \in Ops, NEW q \in Open \cup Terminal,
           m.pending \in {o, None}
    PROVE  /\ InPhase(m, o, q) \in Metas
           /\ InPhase(m, o, q).phase = [m.phase EXCEPT ![o] = q]
           /\ InPhase(m, o, q).pending = IF q \in Open THEN o ELSE None
           /\ InPhase(m, o, q).drawn = [x \in Ops |-> IF m.drawn[x] = "no" THEN "no" ELSE "stale"]
           /\ InPhase(m, o, q).voters = m.voters /\ InPhase(m, o, q).members = m.members
           /\ InPhase(m, o, q).revoked = m.revoked /\ InPhase(m, o, q).capacity = m.capacity
<1> DEFINE z == [m EXCEPT !.phase[o] = q,
                          !.pending = IF q \in Open THEN o ELSE IF @ = o THEN None ELSE @]
<1>1. z.phase = [m.phase EXCEPT ![o] = q] /\ z.drawn = m.drawn /\ z.voters = m.voters
      /\ z.members = m.members /\ z.revoked = m.revoked /\ z.capacity = m.capacity
  BY DEF Metas
<1>2. z.pending = IF q \in Open THEN o ELSE None
  BY DEF Metas
<1>3. z \in Metas
  BY <1>1, <1>2 DEF Metas, Phases
<1>4. InPhase(m, o, q) = Moved(z)
  BY DEF InPhase
<1> HIDE DEF z
<1> DEFINE d == [x \in Ops |-> IF z.drawn[x] = "no" THEN "no" ELSE "stale"]
<1>5. Moved(z) = [z EXCEPT !.drawn = d]
  BY DEF Moved
<1>6. d \in [Ops -> {"no", "fresh", "stale"}]
  OBVIOUS
<1> HIDE DEF d
<1>7. /\ Moved(z) \in Metas /\ Moved(z).phase = z.phase /\ Moved(z).pending = z.pending
      /\ Moved(z).drawn = d /\ Moved(z).voters = z.voters /\ Moved(z).members = z.members
      /\ Moved(z).revoked = z.revoked /\ Moved(z).capacity = z.capacity
  BY <1>3, <1>5, <1>6 DEF Metas
<1> QED
  BY <1>1, <1>2, <1>4, <1>7 DEF d

\* The only open operation is the pending one.
LEMMA OneOpen ==
    ASSUME MaintenanceInv, NEW o \in Ops, meta.pending \in {o, None}
    PROVE  \A x \in Ops \ {o} : Phase(x) \notin Open
  BY MaintenanceAssumption DEF MaintenanceInv, PendingIsTheOpenOne

\* An entry whose reduction is InPhase moves its operation.
LEMMA MovesTo ==
    ASSUME MaintenanceInv, NEW m \in Metas, NEW o \in Ops, NEW q \in Open \cup Terminal,
           meta' = InPhase(m, o, q), m.phase = meta.phase, m.drawn = meta.drawn,
           m.pending = meta.pending, meta.pending \in {o, None}
    PROVE  /\ meta' \in Metas /\ Moves(o, Phase(o), q)
           /\ meta'.voters = m.voters /\ meta'.members = m.members
           /\ meta'.revoked = m.revoked /\ meta'.capacity = m.capacity
<1>1. \A x \in Ops \ {o} : Phase(x) \notin Open
  BY OneOpen
<1> QED
  BY <1>1, InPhaseIs DEF Moves

\* A Begin records its operation, or nothing.
LEMMA BeginMoves ==
    ASSUME MaintenanceInv, NEW o \in Ops, BeginBacked(o), meta' = ApplyBegin(meta, o)
    PROVE  meta' \in Metas /\ (meta' = meta \/ Transition(o))
<1>1. meta \in Metas
  BY DEF MaintenanceInv, Shapes
<1>2. CASE Phase(o) # None \/ meta.pending # None
  BY <1>1, <1>2 DEF ApplyBegin, Phase
<1>3. ASSUME Phase(o) = None, meta.pending = None
      PROVE  meta' \in Metas /\ Transition(o)
  <2>1. \A x \in Ops \ {o} : Phase(x) \notin Open
    BY <1>3, OneOpen
  <2>2. CASE ~Startable(meta, o)
    <3>1. meta' = InPhase(meta, o, "Rejected")
      BY <1>3, <2>2 DEF ApplyBegin, Phase
    <3> QED
      BY <1>1, <1>3, <2>1, <3>1, MovesTo
    DEF Transition, SameRecords, Open, Terminal
  <2>3. CASE Startable(meta, o) /\ o.kind = "SetCapacity"
    <3> DEFINE m == [meta EXCEPT !.capacity = o.size]
    <3>1. meta' = InPhase(m, o, "Completed")
      BY <1>3, <2>3 DEF ApplyBegin, Phase
    <3>2. m \in Metas /\ m.pending = meta.pending /\ m.phase = meta.phase /\ m.drawn = meta.drawn
          /\ m.voters = meta.voters /\ m.members = meta.members /\ m.revoked = meta.revoked
          /\ m.capacity = o.size
      BY <1>1, <1>3, <2>3, MaintenanceAssumption DEF Metas
    <3>3. Acknowledged(o)
      BY <2>3 DEF BeginBacked, Startable
    <3> HIDE DEF m
    <3> QED
      BY <1>3, <2>1, <2>3, <3>1, <3>2, <3>3, MovesTo
    DEF Transition, Open, Terminal
  <2>4. CASE Startable(meta, o) /\ o.kind # "SetCapacity"
    <3>1. meta' = InPhase(meta, o, "Prepared")
      BY <1>3, <2>4 DEF ApplyBegin, Phase
    <3> QED
      BY <1>1, <1>3, <2>1, <2>4, <3>1, MovesTo
    DEF Transition, SameRecords, Open, Terminal
  <2> QED
    BY <2>2, <2>3, <2>4
<1> QED
  BY <1>2, <1>3

\* A Stop ends an operation that is prepared.
LEMMA StopMoves ==
    ASSUME MaintenanceInv, NEW o \in Ops, meta' = ApplyStop(meta, o)
    PROVE  meta' \in Metas /\ (meta' = meta \/ Transition(o))
<1>1. meta \in Metas
  BY DEF MaintenanceInv, Shapes
<1>2. CASE Phase(o) # "Prepared"
  BY <1>1, <1>2 DEF ApplyStop, Phase
<1>3. CASE Phase(o) = "Prepared"
  <2>1. meta.pending = o
    BY <1>3 DEF MaintenanceInv, PendingIsTheOpenOne, Open
  <2>2. meta' = InPhase(meta, o, "Stopped")
    BY <1>3 DEF ApplyStop, Phase
  <2> QED
    BY <1>1, <1>3, <2>1, <2>2, OneOpen, MovesTo
    DEF Transition, SameRecords, Open, Terminal
<1> QED
  BY <1>2, <1>3

\* A Dispatch acts on a prepared operation, whose members acknowledged.
LEMMA DispatchMoves ==
    ASSUME MaintenanceInv, NEW o \in Ops, DispatchBacked(o), meta' = ApplyDispatch(meta, o)
    PROVE  meta' \in Metas /\ (meta' = meta \/ Transition(o))
<1>1. meta \in Metas
  BY DEF MaintenanceInv, Shapes
<1>2. CASE Phase(o) # "Prepared"
  BY <1>1, <1>2 DEF ApplyDispatch, Phase
<1>3. CASE Phase(o) = "Prepared"
  <2> DEFINE m == [meta EXCEPT !.members = IF o.kind = "EnrollLearner" THEN @ \cup {o.node} ELSE @]
  <2>1. meta.pending = o
    BY <1>3 DEF MaintenanceInv, PendingIsTheOpenOne, Open
  <2>2. meta' = InPhase(m, o, "Dispatched")
    BY <1>3 DEF ApplyDispatch, Phase
  <2>3. m \in Metas /\ m.pending = meta.pending /\ m.phase = meta.phase /\ m.drawn = meta.drawn
        /\ m.voters = meta.voters /\ m.revoked = meta.revoked /\ m.capacity = meta.capacity
        /\ m.members = IF o.kind = "EnrollLearner" THEN meta.members \cup {o.node} ELSE meta.members
    BY <1>1, <2>1, MaintenanceAssumption DEF Metas
  <2>4. Acknowledged(o)
    BY <1>3 DEF DispatchBacked
  <2> HIDE DEF m
  <2> QED
    BY <1>3, <2>1, <2>2, <2>3, <2>4, OneOpen, MovesTo
    DEF Transition, Open, Terminal
<1> QED
  BY <1>2, <1>3

\* A Finish resolves a dispatched operation.
LEMMA FinishMoves ==
    ASSUME MaintenanceInv, NEW o \in Ops, NEW c, meta' = ApplyFinish(meta, o, c)
    PROVE  meta' \in Metas /\ (meta' = meta \/ Transition(o))
<1>1. meta \in Metas
  BY DEF MaintenanceInv, Shapes
<1>2. CASE Phase(o) # "Dispatched"
  BY <1>1, <1>2 DEF ApplyFinish, Phase
<1>3. CASE Phase(o) = "Dispatched"
  <2>1. meta.pending = o /\ \A x \in Ops \ {o} : Phase(x) \notin Open
    BY <1>3, OneOpen DEF MaintenanceInv, PendingIsTheOpenOne, Open
  <2>2. CASE ~Achieved(o, c)
    BY <1>1, <2>2 DEF ApplyFinish
  <2>3. CASE Achieved(o, c) /\ o.kind # "RevokeMember"
    <3> DEFINE m == [meta EXCEPT !.voters = IF o.kind = "ReplaceVoters" THEN o.voters ELSE @]
    <3>1. meta' = InPhase(m, o, "Completed")
      BY <1>3, <2>3 DEF ApplyFinish, Phase
    <3>2. o.kind = "ReplaceVoters" => o.voters \subseteq Nodes
      BY <1>1, <1>3 DEF MaintenanceInv, RecordsBacked, Metas
    <3>3. m \in Metas /\ m.pending = meta.pending /\ m.phase = meta.phase /\ m.drawn = meta.drawn
          /\ m.voters = (IF o.kind = "ReplaceVoters" THEN o.voters ELSE meta.voters)
          /\ m.members = meta.members /\ m.revoked = meta.revoked /\ m.capacity = meta.capacity
      BY <1>1, <2>1, <3>2 DEF Metas
    <3>4. o.kind \in {"EnrollLearner", "ReplaceVoters"}
      BY <2>3 DEF Achieved
    <3> HIDE DEF m
    <3> QED
      BY <1>3, <2>1, <3>1, <3>3, <3>4, MovesTo
    DEF Transition, SameRecords, Open, Terminal
  <2>4. CASE Achieved(o, c) /\ o.kind = "RevokeMember"
    <3> DEFINE m == [meta EXCEPT !.members = @ \ {o.node}, !.revoked = @ \cup {o.node}]
    <3>1. meta' = InPhase(m, o, "Draining")
      BY <1>3, <2>4 DEF ApplyFinish, Phase
    <3>2. m \in Metas /\ m.pending = meta.pending /\ m.phase = meta.phase /\ m.drawn = meta.drawn
          /\ m.voters = meta.voters /\ m.members = meta.members \ {o.node}
          /\ m.revoked = meta.revoked \cup {o.node} /\ m.capacity = meta.capacity
      BY <1>1, <2>1, <2>4, MaintenanceAssumption DEF Metas
    <3> HIDE DEF m
    <3> QED
      BY <1>3, <2>1, <2>4, <3>1, <3>2, MovesTo
    DEF Transition, Open, Terminal
  <2> QED
    BY <2>2, <2>3, <2>4
<1> QED
  BY <1>2, <1>3

\* A CompleteDrain ends a revocation that was waited for.
LEMMA DrainMoves ==
    ASSUME MaintenanceInv, NEW o \in Ops, DrainBacked(o), meta' = ApplyCompleteDrain(meta, o)
    PROVE  meta' \in Metas /\ (meta' = meta \/ Transition(o))
<1>1. meta \in Metas
  BY DEF MaintenanceInv, Shapes
<1>2. CASE Phase(o) # "Draining"
  BY <1>1, <1>2 DEF ApplyCompleteDrain, Phase
<1>3. CASE Phase(o) = "Draining"
  <2>1. meta.pending = o
    BY <1>3 DEF MaintenanceInv, PendingIsTheOpenOne, Open
  <2>2. meta' = InPhase(meta, o, "Completed")
    BY <1>3 DEF ApplyCompleteDrain, Phase
  <2>3. truth = Drain
    BY <1>3 DEF DrainBacked
  <2> QED
    BY <1>1, <1>3, <2>1, <2>2, <2>3, OneOpen, MovesTo
    DEF Transition, SameRecords, Open, Terminal
<1> QED
  BY <1>2, <1>3

\* An entry changes nothing, or moves one operation along its phases.
LEMMA ReduceMoves ==
    ASSUME MaintenanceInv, NEW e \in Held, meta' = Reduce(e)
    PROVE  meta' \in Metas /\ (meta' = meta \/ \E o \in Ops : Transition(o))
<1>1. e \in Entries /\ EntryBacked(e) /\ meta \in Metas
  BY ElementOfSeq DEF MaintenanceInv, Shapes, Held
<1>2. e.op \in Ops /\ e.kind \in Writes \cup {"Membership"}
  BY <1>1 DEF Entries
<1>3. CASE e.kind = "Membership" \/ e.term # e.log
  BY <1>1, <1>3 DEF Reduce
<1>4. CASE e.kind # "Membership" /\ e.term = e.log
  BY <1>1, <1>2, <1>4, BeginMoves, StopMoves, DispatchMoves, FinishMoves, DrainMoves
  DEF Reduce, EntryBacked, Writes
<1> QED
  BY <1>3, <1>4

----------------------------------------------------------------------------
(* What a step carries over *)

Carries ==
    /\ \A e \in Entries : EntryBacked(e) => EntryBacked(e)'
    /\ \A c \in Calls : CallBacked(c) => CallBacked(c)'
    /\ \A w \in Drains : WitnessBacked(w) => WitnessBacked(w)'

Kept ==
    /\ meta' \in Metas /\ RecordsBacked' /\ PendingIsTheOpenOne'
    /\ MembersFit' /\ RevocationDrained'
    /\ meta.members \cup meta.revoked \subseteq meta'.members \cup meta'.revoked
    /\ \A op \in Ops : Phase(op) \in Begun => Phase(op)' \in Begun

\* What is required of a member is one of the members and a natural size.
LEMMA RequiredIs ==
    ASSUME NEW m \in Metas, NEW o \in Ops
    PROVE  Required(m, o) \in [who : SUBSET Nodes, size : Nat]
  BY MaintenanceAssumption DEF Required, Metas

\* No phase moves; a revision may be drawn.
NoPhase ==
    /\ meta' \in Metas /\ meta'.phase = meta.phase /\ meta'.pending = meta.pending /\ SameRecords
    /\ \A x \in Ops : meta.drawn[x] # "no" => meta'.drawn[x] = meta.drawn[x]

\* While no phase moves, floors only rise and time only passes.
LEMMA StillKept ==
    ASSUME MaintenanceInv, NoPhase, term' >= term, term' \in Nat,
           floor' \in [Nodes -> Nat], \A m \in Nodes : floor'[m] >= floor[m],
           truth' \in truth .. Drain
    PROVE  Kept /\ Carries
<1>1. meta \in Metas /\ floor \in [Nodes -> Nat] /\ term \in Nat /\ truth \in Nat /\ Drain \in Nat
      /\ meta.capacity \in Nat /\ meta.members \subseteq Nodes
  BY MaintenanceAssumption DEF MaintenanceInv, Shapes, Metas
<1>2. Kept
  <2>1. MembersFit'
    BY <1>1 DEF MaintenanceInv, MembersFit, NoPhase, SameRecords
  <2>2. RevocationDrained'
    BY <1>1 DEF MaintenanceInv, RevocationDrained, Phase, NoPhase
  <2> QED
    BY <1>1, <2>1, <2>2 DEF Kept, MaintenanceInv, RecordsBacked, PendingIsTheOpenOne, Phase,
       NoPhase, SameRecords
<1>3. \A o \in Ops : Acknowledged(o) => Acknowledged(o)'
  <2> SUFFICES ASSUME NEW o \in Ops, Acknowledged(o) PROVE Acknowledged(o)'
    OBVIOUS
  <2> DEFINE r == Required(meta, o)
  <2>1. r \in [who : SUBSET Nodes, size : Nat]
    BY <1>1, RequiredIs
  <2>2. Required(meta, o)' = r
    BY DEF Required, NoPhase, SameRecords
  <2>3. \A m \in r.who : floor[m] >= r.size
    BY DEF Acknowledged
  <2> HIDE DEF r
  <2> QED
    BY <1>1, <2>1, <2>2, <2>3 DEF Acknowledged
<1>4. \A o \in Ops : BeginBacked(o) => BeginBacked(o)'
  BY <1>3 DEF BeginBacked, NoPhase
<1>5. \A o \in Ops : DispatchBacked(o) => DispatchBacked(o)'
  BY <1>3 DEF DispatchBacked, Phase, NoPhase
<1>6. \A o \in Ops : DrainBacked(o) => DrainBacked(o)'
  BY <1>1 DEF DrainBacked, Phase, NoPhase
<1>7. \A e \in Entries : EntryBacked(e) => EntryBacked(e)'
  BY <1>4, <1>5, <1>6 DEF EntryBacked, Entries, NoPhase, SameRecords
<1>8. \A c \in Calls : CallBacked(c) => CallBacked(c)'
  BY <1>1, <1>4, <1>5, <1>6 DEF CallBacked, Calls, Phase, Required, NoPhase, SameRecords
<1>9. \A w \in Drains : WitnessBacked(w) => WitnessBacked(w)'
  BY <1>1 DEF WitnessBacked, Drains, Phase, NoPhase
<1> QED
  BY <1>2, <1>7, <1>8, <1>9 DEF Carries

\* An entry takes an operation forward: none returns to Prepared, what was
\* dispatched stays so, what drains can only complete, and no revision is fresh.
LEMMA Forward ==
    ASSUME MaintenanceInv, NEW o \in Ops, Transition(o), NEW x \in Ops
    PROVE  /\ Phase(x) # None => Phase(x)' \notin {None, "Prepared"}
           /\ Phase(x) \in Begun => Phase(x)' \in Begun
           /\ Phase(x) \in {"Draining", "Completed"} => Phase(x)' = "Completed"
           /\ x # o => Phase(x)' = Phase(x) /\ Phase(x) \notin Open
           /\ meta'.drawn[x] # "fresh" /\ (meta.drawn[x] # "no" => meta'.drawn[x] # "no")
<1>1. meta.phase \in [Ops -> Phases] /\ meta.drawn \in [Ops -> {"no", "fresh", "stale"}]
  BY DEF MaintenanceInv, Shapes, Metas
<1>2. PICK p, q : Moves(o, p, q) /\ \/ p = None /\ q \in {"Rejected", "Prepared", "Completed"}
                                    \/ p = "Prepared" /\ q \in {"Stopped", "Dispatched"}
                                    \/ p = "Dispatched" /\ q \in {"Draining", "Completed"}
                                    \/ p = "Draining" /\ q = "Completed"
  BY DEF Transition
<1>3. Phase(x)' = (IF x = o THEN q ELSE Phase(x)) /\ Phase(o) = p
  BY <1>1, <1>2 DEF Moves, Phase
<1>4. x # o => Phase(x) \notin Open
  BY <1>2 DEF Moves
<1>5. meta'.drawn[x] = IF meta.drawn[x] = "no" THEN "no" ELSE "stale"
  BY <1>2 DEF Moves
<1>6. None \notin Open \cup Terminal
  BY MaintenanceAssumption
<1> QED
  BY <1>2, <1>3, <1>4, <1>5, <1>6 DEF Open, Terminal, Begun

\* An entry that moves an operation keeps the records sound.
LEMMA MovedRecords ==
    ASSUME MaintenanceInv, NEW o \in Ops, Transition(o), meta' \in Metas
    PROVE  RecordsBacked' /\ PendingIsTheOpenOne'
           /\ meta.members \cup meta.revoked \subseteq meta'.members \cup meta'.revoked
<1>1. meta \in Metas /\ RecordsBacked
  BY DEF MaintenanceInv, Shapes
<1>2. None \notin Open \cup Terminal /\ None \notin Ops
  BY MaintenanceAssumption
<1>3. meta.members \cup meta.revoked \subseteq meta'.members \cup meta'.revoked
  BY DEF Transition, SameRecords
<1>4. \A x \in Ops \ {o} : Phase(x)' = Phase(x) /\ Phase(x) \notin Open
  BY Forward
<1>5. PendingIsTheOpenOne'
  <2>1. PICK p, q : Moves(o, p, q)
    BY DEF Transition
  <2>2. meta'.phase[o] = q
    BY <1>1, <2>1 DEF Moves, Metas
  <2> QED
    BY <1>2, <1>4, <2>1, <2>2 DEF Moves, PendingIsTheOpenOne, Phase
<1>6. meta'.voters \subseteq meta'.members /\ meta'.members \cap meta'.revoked = {}
  BY <1>1 DEF Transition, SameRecords, Moves, RecordsBacked
<1>7. ASSUME NEW x \in Ops, x # o
      PROVE  /\ Phase(x)' \notin {"Prepared", "Dispatched", "Draining"}
             /\ x.kind = "EnrollLearner" /\ Phase(x)' \in Begun => x.node \in meta'.members \cup meta'.revoked
  BY <1>1, <1>3, <1>4, <1>7 DEF RecordsBacked, Open
<1>8. /\ Phase(o)' \in {"Prepared", "Dispatched"} =>
            /\ o.kind = "ReplaceVoters" => o.voters \subseteq meta'.members
            /\ o.kind = "RevokeMember" => o.node \in meta'.members \ meta'.voters
      /\ o.kind = "EnrollLearner" =>
           /\ Phase(o)' = "Prepared" => o.node \notin meta'.revoked
           /\ Phase(o)' \in Begun => o.node \in meta'.members \cup meta'.revoked
      /\ Phase(o)' = "Draining" => o.kind = "RevokeMember"
  <2>1. \A p, q : Moves(o, p, q) => Phase(o) = p /\ Phase(o)' = q
    BY <1>1 DEF Moves, Phase, Metas
  <2> QED
    BY <1>1, <2>1 DEF Transition, SameRecords, RecordsBacked, Startable, Begun
<1> QED
  BY <1>3, <1>5, <1>6, <1>7, <1>8 DEF RecordsBacked

\* An entry that moves an operation carries over what calls, entries and witnesses
\* rest on.
LEMMA MovedKept ==
    ASSUME MaintenanceInv, NEW o \in Ops, Transition(o), meta' \in Metas,
           floor' = floor, term' = term,
           truth' = IF meta'.revoked # meta.revoked THEN 0 ELSE truth
    PROVE  Kept /\ Carries
<1>1. meta \in Metas /\ floor \in [Nodes -> Nat] /\ truth \in 0 .. Drain /\ Drain \in Nat
  BY MaintenanceAssumption DEF MaintenanceInv, Shapes
<1>2. RecordsBacked' /\ PendingIsTheOpenOne'
      /\ meta.members \cup meta.revoked \subseteq meta'.members \cup meta'.revoked
  BY MovedRecords
<1>3. \A p, q : Moves(o, p, q) => Phase(o) = p /\ Phase(o)' = q
  BY <1>1 DEF Moves, Phase, Metas
<1>4. MembersFit'
  <2>1. \A m \in meta.members : floor[m] >= meta.capacity
    BY DEF MaintenanceInv, MembersFit
  <2>2. CASE meta'.members \subseteq meta.members /\ meta'.capacity = meta.capacity
    BY <2>1, <2>2 DEF MembersFit
  <2>3. CASE meta'.members = meta.members /\ meta'.capacity = o.size
             /\ o.kind = "SetCapacity" /\ Acknowledged(o)
    <3>1. meta'.capacity \in Nat /\ meta.capacity \in Nat /\ meta.members \subseteq Nodes
      BY <1>1 DEF Metas
    <3> QED
      BY <1>1, <2>3, <3>1 DEF MembersFit, Acknowledged, Required
  <2>4. CASE meta'.members = meta.members \cup {o.node} /\ meta'.capacity = meta.capacity
             /\ o.kind = "EnrollLearner" /\ Acknowledged(o)
    BY <2>4 DEF MembersFit, Acknowledged, Required
  <2> QED
    BY <2>2, <2>3, <2>4 DEF Transition, SameRecords
<1>5. RevocationDrained'
  <2>1. CASE Phase(o)' = "Draining"
    BY <2>1, <1>2 DEF RecordsBacked, RevocationDrained
  <2>2. CASE Phase(o)' # "Draining"
    <3>1. truth' = truth
      BY <1>3, <2>2 DEF Transition, SameRecords
    <3>2. truth = Drain \/ Phase(o) # "Draining"
      BY <1>3, <1>2, MaintenanceAssumption DEF Transition, Open
    <3>3. \A x \in Ops \ {o} : Phase(x) # "Draining"
      BY Forward DEF Open
    <3>4. truth = Drain
      BY <1>1, <3>2, <3>3 DEF MaintenanceInv, RevocationDrained
    <3> QED
      BY <1>1, <3>1, <3>4 DEF RevocationDrained
  <2> QED
    BY <2>1, <2>2
<1>6. Kept
  BY <1>2, <1>4, <1>5, Forward DEF Kept
<1>7. \A x \in Ops : /\ BeginBacked(x) => BeginBacked(x)'
                     /\ DispatchBacked(x) => DispatchBacked(x)'
                     /\ DrainBacked(x) => DrainBacked(x)'
  BY Forward DEF BeginBacked, DispatchBacked, DrainBacked
<1>8. \A e \in Entries : EntryBacked(e) => EntryBacked(e)'
  BY <1>2, <1>7 DEF EntryBacked, Entries
<1>9. \A c \in Calls : CallBacked(c) => CallBacked(c)'
  BY <1>7, Forward DEF CallBacked, Calls
<1>10. \A w \in Drains : WitnessBacked(w) => WitnessBacked(w)'
  BY Forward DEF WitnessBacked, Drains
<1> QED
  BY <1>6, <1>8, <1>9, <1>10 DEF Carries

----------------------------------------------------------------------------
(* The log *)

Single == \A i, j \in Memberships(tail) : i = j

\* What is appended joins what was held.
LEMMA Appended ==
    ASSUME Shapes, Single, NEW e \in Entries, tail' = Append(tail, e),
           e.kind = "Membership" => Settled
    PROVE  tail' \in Seq(Entries) /\ Held' \subseteq Held \cup {e} /\ Single'
<1>1. tail \in Seq(Entries) /\ Len(tail) \in Nat
  BY DEF Shapes
<1>2. /\ tail' \in Seq(Entries) /\ DOMAIN tail = 1 .. Len(tail)
      /\ DOMAIN tail' = 1 .. Len(tail) + 1 /\ tail'[Len(tail) + 1] = e
      /\ \A i \in DOMAIN tail : tail'[i] = tail[i]
  BY <1>1
<1>3. Held' \subseteq Held \cup {e}
  BY <1>1, <1>2 DEF Held
<1>4. Memberships(tail') \subseteq
        Memberships(tail) \cup (IF e.kind = "Membership" THEN {Len(tail) + 1} ELSE {})
  BY <1>1, <1>2 DEF Memberships
<1> QED
  BY <1>2, <1>3, <1>4 DEF Single, Settled

\* What is committed leaves the tail.
LEMMA Shortened ==
    ASSUME Shapes, Single, tail # <<>>, tail' = Tail(tail)
    PROVE  /\ tail' \in Seq(Entries) /\ Held' \subseteq Held /\ Single'
           /\ Head(tail) \in Held /\ Head(tail) \in Entries
<1>1. tail \in Seq(Entries) /\ Len(tail) \in Nat \ {0}
  BY EmptySeq DEF Shapes
<1>2. /\ tail' \in Seq(Entries) /\ DOMAIN tail = 1 .. Len(tail)
      /\ DOMAIN tail' = 1 .. Len(tail) - 1
      /\ \A i \in DOMAIN tail' : tail'[i] = tail[i + 1] /\ i + 1 \in DOMAIN tail
      /\ Head(tail) = tail[1] /\ 1 \in DOMAIN tail
  BY <1>1
<1>3. Held' \subseteq Held
  BY <1>1, <1>2 DEF Held
<1>4. \A i \in Memberships(tail') : i + 1 \in Memberships(tail) /\ i \in Int
  BY <1>1, <1>2 DEF Memberships
<1>5. Single'
  BY <1>4 DEF Single
<1>6. Head(tail) \in Held /\ Head(tail) \in Entries
  BY <1>1, <1>2 DEF Held
<1> QED
  BY <1>2, <1>3, <1>5, <1>6

\* What an elected leader does not hold is gone.
LEMMA Truncated ==
    ASSUME Shapes, Single, NEW k \in 0 .. Len(tail), tail' = SubSeq(tail, 1, k)
    PROVE  tail' \in Seq(Entries) /\ Held' \subseteq Held /\ Single'
<1>1. tail \in Seq(Entries) /\ Len(tail) \in Nat
  BY DEF Shapes
<1>2. /\ tail' \in Seq(Entries) /\ DOMAIN tail = 1 .. Len(tail) /\ DOMAIN tail' = 1 .. k
      /\ \A i \in DOMAIN tail' : tail'[i] = tail[i] /\ i \in DOMAIN tail
  BY <1>1
<1> QED
  BY <1>2 DEF Held, Single, Memberships

\* The effective membership is the committed one or the one that is held.
LEMMA EffectiveIs ==
    ASSUME Shapes, Single
    PROVE  \/ Memberships(tail) = {} /\ Effective = config
           \/ \E e \in Held : e.kind = "Membership" /\ Effective = e.config
<1>1. CASE Memberships(tail) = {}
  BY <1>1 DEF Effective, EffectiveIn
<1>2. CASE Memberships(tail) # {}
  <2>1. PICK i \in Memberships(tail) : TRUE
    BY <1>2
  <2>2. Memberships(tail) = {i} /\ i \in Nat
    BY <2>1 DEF Single, Memberships, Shapes
  <2>3. Max(Memberships(tail)) = i
    BY <2>2 DEF Max
  <2>4. Effective = tail[i].config
    BY <1>2, <2>3 DEF Effective, EffectiveIn
  <2> QED
    BY <2>1, <2>4 DEF Held, Memberships
<1> QED
  BY <1>1, <1>2

\* Whoever is in the effective membership is, or was, on record.
LEMMA EffectiveOnRecord ==
    ASSUME MaintenanceInv
    PROVE  /\ Effective \in [joint : Seq(SUBSET Nodes), nodes : SUBSET Nodes]
           /\ Len(Effective.joint) \in 1 .. 2
           /\ Effective.nodes \subseteq meta.members \cup meta.revoked
<1>1. Shapes /\ Single /\ \A e \in Held : EntryBacked(e) /\ e \in Entries
  BY ElementOfSeq DEF MaintenanceInv, Single, Held, Shapes
<1> QED
  BY <1>1, EffectiveIs DEF MaintenanceInv, EntryBacked, Entries, Shapes, Writes

\* The parts that remain to be shown of a step that keeps the records.
LEMMA Assembled ==
    ASSUME MaintenanceInv, Kept, Carries, Shapes', Single',
           \A e \in Held' : e \in Held \/ EntryBacked(e)',
           \A n \in Nodes : call'[n] \in {call[n], None} \/ CallBacked(call[n])',
           \A n \in Nodes : witness'[n] \in {witness[n], None} \/ WitnessBacked(witness[n])',
           config' = config \/ (Len(config'.joint) \in 1 .. 2
                                 /\ config'.nodes \subseteq meta'.members \cup meta'.revoked),
           \A op \in effects' : op \in effects \/ Phase(op) \in Begun
    PROVE  MaintenanceInv'
<1>1. \A e \in Held' : EntryBacked(e)'
  <2>1. \A e \in Held : e \in Entries /\ EntryBacked(e)
    BY ElementOfSeq DEF MaintenanceInv, Held, Shapes
  <2> QED
    BY <2>1 DEF Carries
<1>2. \A n \in Nodes : call'[n] # None => CallBacked(call[n])'
  <2> SUFFICES ASSUME NEW n \in Nodes, call'[n] # None PROVE CallBacked(call[n])'
    OBVIOUS
  <2>1. CASE call'[n] = call[n]
    <3>1. call[n] \in Calls /\ CallBacked(call[n])
      BY <2>1 DEF MaintenanceInv, Shapes
    <3>2. \A d \in Calls : CallBacked(d) => CallBacked(d)'
      BY DEF Carries
    <3>3. \A d \in Calls : CallBacked(d) /\ d = call'[n] => CallBacked(call[n])'
      BY <3>2 DEF CallBacked
    <3> QED
      BY <2>1, <3>1, <3>3
  <2> QED
    BY <2>1
<1>3. \A n \in Nodes : witness'[n] # None => WitnessBacked(witness[n])'
  <2> SUFFICES ASSUME NEW n \in Nodes, witness'[n] # None PROVE WitnessBacked(witness[n])'
    OBVIOUS
  <2>1. CASE witness'[n] = witness[n]
    <3>1. witness[n] \in Drains /\ WitnessBacked(witness[n])
      BY <2>1 DEF MaintenanceInv, Shapes
    <3>2. \A d \in Drains : WitnessBacked(d) => WitnessBacked(d)'
      BY DEF Carries
    <3>3. \A d \in Drains : WitnessBacked(d) /\ d = witness'[n] => WitnessBacked(witness[n])'
      BY <3>2 DEF WitnessBacked
    <3> QED
      BY <2>1, <3>1, <3>3
  <2> QED
    BY <2>1
<1>4. Len(config'.joint) \in 1 .. 2 /\ config'.nodes \subseteq meta'.members \cup meta'.revoked
  BY DEF MaintenanceInv, Kept
<1>5. \A op \in effects' : Phase(op)' \in Begun
  BY DEF MaintenanceInv, Kept, Shapes
<1> QED
  BY <1>1, <1>2, <1>3, <1>4, <1>5 DEF MaintenanceInv, Kept, Single

----------------------------------------------------------------------------
(* One lemma per action *)

\* A step that changes neither the records nor the floors keeps and carries.
LEMMA Unmoved ==
    ASSUME MaintenanceInv, UNCHANGED <<meta, floor, truth>>, term' >= term, term' \in Nat
    PROVE  Kept /\ Carries
<1>1. meta \in Metas /\ floor \in [Nodes -> Nat] /\ truth \in 0 .. Drain /\ Drain \in Nat
  BY MaintenanceAssumption DEF MaintenanceInv, Shapes
<1>2. NoPhase
  BY <1>1 DEF NoPhase, SameRecords
<1>3. truth' \in truth .. Drain /\ \A m \in Nodes : floor'[m] >= floor[m]
  BY <1>1
<1> QED
  BY <1>1, <1>2, <1>3, StillKept

\* A call is routed by the phase its operation has.
LEMMA Routed ==
    ASSUME NEW m \in Metas, NEW o \in Ops, NEW t \in Nat
    PROVE  \/ Route(o, t, m) = None
           \/ /\ Route(o, t, m) \in Calls
              /\ Route(o, t, m).op = o /\ Route(o, t, m).term = t
              /\ Route(o, t, m).need = Required(m, o)
              /\ \/ m.phase[o] = "Prepared" /\ Route(o, t, m).at = "ready"
                 \/ m.phase[o] = "Dispatched" /\ Route(o, t, m).at = "effect"
                 \/ m.phase[o] = "Draining" /\ Route(o, t, m).at = "drain"
  BY RequiredIs DEF Route, At, Open, Calls, Ats

\* A call that starts is backed by the records it was routed by.
LEMMA RoutedBacked ==
    ASSUME meta' \in Metas, NEW o \in Ops, NEW t \in Nat, t \in 1 .. term',
           NEW c, c # None, c = Route(o, t, meta')
    PROVE  CallBacked(c)' /\ c \in Calls
<1>1. None \notin Open
  BY MaintenanceAssumption
<1>2. /\ c \in Calls /\ c.op = o /\ c.term = t
      /\ \/ meta'.phase[o] = "Prepared" /\ c.at = "ready" /\ c.need = Required(meta', o)
         \/ meta'.phase[o] = "Dispatched" /\ c.at = "effect"
         \/ meta'.phase[o] = "Draining" /\ c.at = "drain"
  <2>1. \A m \in Metas : c = Route(o, t, m) =>
          /\ c \in Calls /\ c.op = o /\ c.term = t
          /\ \/ m.phase[o] = "Prepared" /\ c.at = "ready" /\ c.need = Required(m, o)
             \/ m.phase[o] = "Dispatched" /\ c.at = "effect"
             \/ m.phase[o] = "Draining" /\ c.at = "drain"
    BY Routed
  <2> QED
    BY <2>1
<1> QED
  BY <1>1, <1>2 DEF CallBacked, Phase, Begun, Writes, Open

\* A step of the call of one member.
LEMMA CallStep ==
    ASSUME MaintenanceInv, Kept, Carries, NEW n \in Nodes, NEW c \in Calls \cup {None},
           call' = [call EXCEPT ![n] = c], c # None => CallBacked(c)',
           config' = config, leader' = leader, term' = term, truth' = truth,
           floor' \in [Nodes -> Nat], faults' \in 0 .. MaxFaults,
           tail' \in Seq(Entries), Single', \A e \in Held' : e \in Held \/ EntryBacked(e)',
           effects' \subseteq effects \cup {op \in Ops : Phase(op) \in Begun},
           witness' \in [Nodes -> Drains \cup {None}],
           \A m \in Nodes : witness'[m] \in {witness[m], None} \/ WitnessBacked(witness[m])'
    PROVE  MaintenanceInv'
<1>1. call \in [Nodes -> Calls \cup {None}] /\ effects \subseteq Ops
  BY DEF MaintenanceInv, Shapes
<1>2. call' \in [Nodes -> Calls \cup {None}] /\ effects' \subseteq Ops
  BY <1>1
<1>3. Shapes'
  BY <1>2 DEF MaintenanceInv, Shapes, Kept
<1>4. ASSUME NEW m \in Nodes PROVE call'[m] \in {call[m], None} \/ CallBacked(call[m])'
  <2>1. CASE m # n
    BY <1>1, <2>1
  <2>2. CASE m = n
    <3>1. call'[m] = c
      BY <1>1, <2>2
    <3>2. c # None => CallBacked(call[m])'
      BY <3>1 DEF CallBacked
    <3> QED
      BY <3>1, <3>2
  <2> QED
    BY <2>1, <2>2
<1> QED
  BY <1>3, <1>4, Assembled

\* A call goes on with another step, or ends.
LEMMA GoesIs ==
    ASSUME MaintenanceInv, NEW n \in Nodes, call[n] # None, NEW at \in Ats, Goes(n, at)
    PROVE  \E c \in Calls : /\ call' = [call EXCEPT ![n] = c]
                            /\ c.op = call[n].op /\ c.term = call[n].term
                            /\ c.need = call[n].need /\ c.at = at
<1>1. call \in [Nodes -> Calls \cup {None}] /\ call[n] \in Calls
  BY DEF MaintenanceInv, Shapes
<1> DEFINE c == [call[n] EXCEPT !.at = at]
<1>2. c \in Calls /\ c.op = call[n].op /\ c.term = call[n].term /\ c.need = call[n].need /\ c.at = at
  BY <1>1 DEF Calls
<1>3. call' = [call EXCEPT ![n] = c]
  BY <1>1 DEF Goes
<1> QED
  BY <1>2, <1>3

\* What holds of the state a step of a call starts from.
LEMMA Now ==
    ASSUME MaintenanceInv
    PROVE  /\ meta \in Metas /\ tail \in Seq(Entries) /\ Single
           /\ call \in [Nodes -> Calls \cup {None}] /\ term \in Nat /\ term \in 1 .. term
           /\ floor \in [Nodes -> Nat] /\ faults \in 0 .. MaxFaults /\ MaxFaults \in Nat
           /\ witness \in [Nodes -> Drains \cup {None}] /\ truth \in 0 .. Drain /\ Drain \in Nat
           /\ \A n \in Nodes : call[n] # None => call[n] \in Calls /\ CallBacked(call[n])
  BY MaintenanceAssumption DEF MaintenanceInv, Shapes, Single

\* StartCall: the revision its command names is drawn, or the phase routes it.
LEMMA StartKeeps ==
    ASSUME MaintenanceInv, NEW n \in Nodes, NEW op \in Ops, StartCall(n, op)
    PROVE  MaintenanceInv'
<1> USE Now
<1>0. /\ config' = config /\ leader' = leader /\ term' = term /\ truth' = truth /\ floor' = floor
      /\ faults' = faults /\ tail' = tail /\ effects' = effects /\ witness' = witness
      /\ Single' /\ Held' = Held
  BY DEF StartCall, Single, Memberships, Held
<1>1. CASE Phase(op) = None
  <2>1. call' = [call EXCEPT ![n] = At(op, term, "preflight", meta)]
        /\ meta' = [meta EXCEPT !.drawn[op] = IF @ = "no" THEN "fresh" ELSE @]
    BY <1>1 DEF StartCall
  <2>2. NoPhase /\ meta'.drawn[op] # "no"
    BY <2>1 DEF Metas, NoPhase, SameRecords
  <2>3. Kept /\ Carries
    BY <1>0, <2>2, StillKept
  <2> DEFINE d == At(op, term, "preflight", meta)
  <2>4. d \in Calls /\ d.op = op /\ d.term = term /\ d.at = "preflight" /\ d.need = Required(meta, op)
    BY RequiredIs DEF At, Calls, Ats
  <2>5. PICK c : c = d
    OBVIOUS
  <2>6. Required(meta, op)' = Required(meta, op)
    BY <2>2 DEF Required, NoPhase, SameRecords
  <2>7. CallBacked(c)'
    BY <1>0, <2>2, <2>4, <2>5, <2>6 DEF CallBacked, Writes
  <2>8. call' = [call EXCEPT ![n] = c] /\ c \in Calls
    BY <2>1, <2>4, <2>5
  <2> HIDE DEF d
  <2> QED
    BY <1>0, <2>3, <2>7, <2>8, CallStep
<1>2. CASE Phase(op) # None
  <2>1. call' = [call EXCEPT ![n] = Route(op, term, meta)] /\ meta' = meta
    BY <1>2 DEF StartCall
  <2>2. PICK c : c = Route(op, term, meta)
    OBVIOUS
  <2>3. c \in Calls \cup {None} /\ (c # None => CallBacked(c)')
    BY <1>0, <2>1, <2>2, RoutedBacked
  <2>4. Kept /\ Carries
    BY <1>0, <2>1, Unmoved
  <2> QED
    BY <1>0, <2>1, <2>2, <2>3, <2>4, CallStep
<1> QED
  BY <1>1, <1>2

\* StopCall: nothing rests on what a Stop finds.
LEMMA StopKeeps ==
    ASSUME MaintenanceInv, NEW n \in Nodes, NEW op \in Ops, StopCall(n, op)
    PROVE  MaintenanceInv'
<1> USE Now
<1>0. /\ config' = config /\ leader' = leader /\ term' = term /\ truth' = truth /\ floor' = floor
      /\ faults' = faults /\ tail' = tail /\ effects' = effects /\ witness' = witness /\ meta' = meta
      /\ Single' /\ Held' = Held
  BY DEF StopCall, Single, Memberships, Held
<1>1. PICK c : c = At(op, term, "Stop", meta)
  OBVIOUS
<1>2. c \in Calls /\ c.op = op /\ c.term = term /\ c.at = "Stop" /\ call' = [call EXCEPT ![n] = c]
  BY <1>1, RequiredIs DEF At, Calls, Ats, Writes, StopCall
<1>3. CallBacked(c)'
  BY <1>0, <1>2 DEF CallBacked, Writes
<1>4. Kept /\ Carries
  BY <1>0, Unmoved
<1> QED
  BY <1>0, <1>2, <1>3, <1>4, CallStep

\* A call that ends leaves the rest as it is.
LEMMA EndKeeps ==
    ASSUME MaintenanceInv, NEW n \in Nodes, Ends(n), faults' \in 0 .. MaxFaults,
           UNCHANGED <<meta, config, tail, leader, term, floor, witness, truth, effects>>
    PROVE  MaintenanceInv'
<1> USE Now
<1>1. Single' /\ Held' = Held
  BY DEF Single, Memberships, Held
<1>2. call' = [call EXCEPT ![n] = None]
  BY DEF Ends
<1>3. Kept /\ Carries
  BY Unmoved
<1> QED
  BY <1>1, <1>2, <1>3, CallStep

\* Floors are reserved upwards: those who must have acknowledged have, and the
\* records are as they were.
LEMMA Reserved ==
    ASSUME MaintenanceInv, NEW who \in SUBSET Nodes, NEW size \in Nat, Reserve(who, size),
           UNCHANGED <<meta, term, truth>>
    PROVE  /\ floor' \in [Nodes -> Nat] /\ \A m \in who : floor'[m] >= size
           /\ Kept /\ Carries
<1> USE Now
<1>1. floor' \in [Nodes -> Nat] /\ \A m \in Nodes : floor'[m] >= floor[m]
  BY DEF Reserve
<1>2. \A m \in who : floor'[m] >= size
  BY DEF Reserve
<1>3. NoPhase
  BY DEF NoPhase, SameRecords
<1>4. truth' \in truth .. Drain
  OBVIOUS
<1> QED
  BY <1>1, <1>2, <1>3, <1>4, StillKept

\* Preflight: whoever the call asked has acknowledged.
LEMMA PreflightKeeps ==
    ASSUME MaintenanceInv, NEW n \in Nodes, Preflight(n)
    PROVE  MaintenanceInv'
<1> USE Now
<1>0. /\ config' = config /\ leader' = leader /\ term' = term /\ truth' = truth
      /\ faults' = faults /\ tail' = tail /\ effects' = effects /\ witness' = witness /\ meta' = meta
      /\ Single' /\ Held' = Held
  BY DEF Preflight, Single, Memberships, Held
<1>1. /\ call[n] \in Calls /\ call[n] # None /\ CallBacked(call[n])
      /\ call[n].at \in {"preflight", "ready"} /\ call[n].op \in Ops
      /\ call[n].need \in [who : SUBSET Nodes, size : Nat]
  BY DEF Preflight, Is, Calls
<1>2. PICK need, op : need = call[n].need /\ op = call[n].op
  OBVIOUS
<1>3. /\ floor' \in [Nodes -> Nat] /\ \A m \in need.who : floor'[m] >= need.size
      /\ Kept /\ Carries
  BY <1>0, <1>1, <1>2, Reserved DEF Preflight
<1>4. need = Required(meta, op) => Acknowledged(op)'
  BY <1>0, <1>3 DEF Acknowledged, Required
<1> DEFINE at == IF call[n].at = "ready" THEN "Dispatch" ELSE "Begin"
<1>5. at \in Ats
  BY DEF Ats, Writes
<1>6. PICK c \in Calls : call' = [call EXCEPT ![n] = c] /\ c.op = op /\ c.term = call[n].term /\ c.at = at
  BY <1>1, <1>2, <1>5, GoesIs DEF Preflight
<1>7. /\ c.term \in 1 .. term'
      /\ c.at = "Begin" => meta'.drawn[op] # "no" /\ (meta'.drawn[op] = "fresh" => Acknowledged(op)')
      /\ c.at = "Dispatch" => Phase(op)' # None /\ (Phase(op)' = "Prepared" => Acknowledged(op)')
      /\ c.at \in {"Begin", "Dispatch"}
  BY <1>0, <1>1, <1>2, <1>4, <1>6 DEF CallBacked, Phase
<1>8. CallBacked(c)'
  BY <1>6, <1>7 DEF CallBacked, BeginBacked, DispatchBacked
<1> HIDE DEF at
<1> QED
  BY <1>0, <1>3, <1>6, <1>8, CallStep

\* PreflightFails: some acknowledged, and the call is over.
LEMMA PreflightFailsKeeps ==
    ASSUME MaintenanceInv, NEW n \in Nodes, PreflightFails(n)
    PROVE  MaintenanceInv'
<1> USE Now
<1>0. /\ config' = config /\ leader' = leader /\ term' = term /\ truth' = truth
      /\ faults' \in 0 .. MaxFaults /\ tail' = tail /\ effects' = effects /\ witness' = witness
      /\ meta' = meta /\ Single' /\ Held' = Held
  BY DEF PreflightFails, Single, Memberships, Held
<1>1. call[n] \in Calls /\ call[n].need \in [who : SUBSET Nodes, size : Nat]
  BY DEF PreflightFails, Is, Calls
<1>2. PICK some \in SUBSET call[n].need.who : Reserve(some, call[n].need.size)
  BY DEF PreflightFails
<1>3. PICK who \in SUBSET Nodes, size \in Nat : Reserve(who, size)
  BY <1>1, <1>2
<1>4. floor' \in [Nodes -> Nat] /\ Kept /\ Carries
  BY <1>0, <1>3, Reserved
<1>5. call' = [call EXCEPT ![n] = None]
  BY DEF PreflightFails, Ends
<1> QED
  BY <1>0, <1>4, <1>5, CallStep

\* Propose: the entry rests on what its call had established.
LEMMA ProposeKeeps ==
    ASSUME MaintenanceInv, NEW n \in Nodes, Propose(n)
    PROVE  MaintenanceInv'
<1> USE Now
<1>0. /\ config' = config /\ leader' = leader /\ term' = term /\ truth' = truth /\ floor' = floor
      /\ faults' = faults /\ effects' = effects /\ witness' = witness /\ meta' = meta
  BY DEF Propose
<1>1. call[n] \in Calls /\ call[n] # None /\ CallBacked(call[n]) /\ call[n].at \in Writes
  BY DEF Propose
<1>2. PICK e : e = [kind |-> call[n].at, op |-> call[n].op, term |-> call[n].term, log |-> term]
  OBVIOUS
<1>3. e \in Entries /\ e.kind # "Membership" /\ tail' = Append(tail, e)
  BY <1>1, <1>2 DEF Entries, Calls, Writes, Propose
<1>4. EntryBacked(e)
  BY <1>1, <1>2 DEF EntryBacked, CallBacked, Writes
<1>5. Kept /\ Carries
  BY <1>0, Unmoved
<1>6. tail' \in Seq(Entries) /\ Held' \subseteq Held \cup {e} /\ Single' /\ EntryBacked(e)'
  BY <1>3, <1>4, <1>5, Appended DEF MaintenanceInv, Carries
<1>7. PICK c \in Calls : call' = [call EXCEPT ![n] = c] /\ c.term = call[n].term /\ c.at = "wait"
  BY <1>1, GoesIs DEF Propose, Ats
<1>8. CallBacked(c)'
  BY <1>0, <1>1, <1>7 DEF CallBacked, Writes
<1> QED
  BY <1>0, <1>5, <1>6, <1>7, <1>8, CallStep

\* A change of the membership for a dispatched operation, to recorded members.
LEMMA ChangeKeeps ==
    ASSUME MaintenanceInv, NEW n \in Nodes, call[n] # None, Settled,
           call[n].at \in {"effect", "second"},
           NEW d \in [joint : Seq(SUBSET Nodes), nodes : SUBSET Nodes],
           Len(d.joint) \in 1 .. 2, d.nodes \subseteq meta.members \cup meta.revoked,
           Change(n, d), Goes(n, "joining"),
           UNCHANGED <<meta, config, leader, term, floor, witness, truth, faults>>
    PROVE  MaintenanceInv'
<1> USE Now
<1>1. call[n] \in Calls /\ CallBacked(call[n]) /\ call[n].op \in Ops /\ Phase(call[n].op) \in Begun
  BY DEF CallBacked, Calls
<1>2. PICK e : e = [kind |-> "Membership", config |-> d, op |-> call[n].op,
                    term |-> call[n].term, log |-> term]
  OBVIOUS
<1>3. e \in Entries /\ tail' = Append(tail, e)
  BY <1>1, <1>2 DEF Entries, Calls, Change
<1>4. EntryBacked(e)
  BY <1>1, <1>2 DEF EntryBacked
<1>5. Kept /\ Carries
  BY Unmoved
<1>6. tail' \in Seq(Entries) /\ Held' \subseteq Held \cup {e} /\ Single' /\ EntryBacked(e)'
  BY <1>3, <1>4, <1>5, Appended DEF MaintenanceInv, Carries
<1>7. PICK c \in Calls : call' = [call EXCEPT ![n] = c] /\ c.op = call[n].op
                        /\ c.term = call[n].term /\ c.at = "joining"
  BY GoesIs DEF Ats
<1>8. CallBacked(c)'
  BY <1>1, <1>7 DEF CallBacked, Writes, Phase
<1>9. effects' \subseteq effects \cup {op \in Ops : Phase(op) \in Begun}
  BY <1>1 DEF Change
<1> QED
  BY <1>5, <1>6, <1>7, <1>8, <1>9, CallStep

\* A change that finds its goal reached goes on to report it.
LEMMA ReachedKeeps ==
    ASSUME MaintenanceInv, NEW n \in Nodes, call[n] # None,
           call[n].at \in {"effect", "second"}, Goes(n, "Finish"),
           UNCHANGED <<meta, config, tail, leader, term, floor, witness, truth, effects, faults>>
    PROVE  MaintenanceInv'
<1> USE Now
<1>1. Single' /\ Held' = Held
  BY DEF Single, Memberships, Held
<1>2. call[n] \in Calls /\ CallBacked(call[n]) /\ Phase(call[n].op) \in Begun
  BY DEF CallBacked, Calls
<1>3. Kept /\ Carries
  BY Unmoved
<1>4. PICK c \in Calls : call' = [call EXCEPT ![n] = c] /\ c.op = call[n].op
                        /\ c.term = call[n].term /\ c.at = "Finish"
  BY GoesIs DEF Ats, Writes
<1>5. CallBacked(c)'
  BY <1>2, <1>4 DEF CallBacked, Phase
<1> QED
  BY <1>1, <1>3, <1>4, <1>5, CallStep

\* Enroll: the learner is on record since its dispatch.
LEMMA EnrollKeeps ==
    ASSUME MaintenanceInv, NEW n \in Nodes, Enroll(n)
    PROVE  MaintenanceInv'
<1>1. /\ Effective \in [joint : Seq(SUBSET Nodes), nodes : SUBSET Nodes]
      /\ Len(Effective.joint) \in 1 .. 2 /\ Effective.nodes \subseteq meta.members \cup meta.revoked
  BY EffectiveOnRecord
<1>2. /\ call[n] \in Calls /\ call[n] # None /\ CallBacked(call[n])
      /\ call[n].at = "effect" /\ call[n].op.kind = "EnrollLearner" /\ call[n].op \in Ops
  BY Now DEF Enroll, Is, Calls
<1>3. Phase(call[n].op) \in Begun
  BY <1>2 DEF CallBacked
<1>4. call[n].op.node \in meta.members \cup meta.revoked /\ call[n].op.node \in Nodes
  BY <1>2, <1>3, MaintenanceAssumption DEF MaintenanceInv, RecordsBacked
<1>5. PICK d : d = [Effective EXCEPT !.nodes = @ \cup {call[n].op.node}]
  OBVIOUS
<1>6. /\ d \in [joint : Seq(SUBSET Nodes), nodes : SUBSET Nodes] /\ Len(d.joint) \in 1 .. 2
      /\ d.nodes \subseteq meta.members \cup meta.revoked
  BY <1>1, <1>4, <1>5
<1> QED
  BY <1>2, <1>5, <1>6, ChangeKeeps DEF Enroll

\* Replace: each step of the joint change is over nodes the membership has.
LEMMA ReplaceKeeps ==
    ASSUME MaintenanceInv, NEW n \in Nodes, Replace(n)
    PROVE  MaintenanceInv'
<1>1. /\ Effective \in [joint : Seq(SUBSET Nodes), nodes : SUBSET Nodes]
      /\ Len(Effective.joint) \in 1 .. 2 /\ Effective.nodes \subseteq meta.members \cup meta.revoked
  BY EffectiveOnRecord
<1>2. call[n] # None /\ call[n].at \in {"effect", "second"}
  BY DEF Replace, Is
<1>3. CASE Is(n, "effect") /\ Effective.joint = <<call[n].op.voters>>
  BY <1>2, <1>3, ReachedKeeps DEF Replace
<1>4. CASE ~(Is(n, "effect") /\ Effective.joint = <<call[n].op.voters>>)
  <2>1. PICK goal : goal = call[n].op.voters
    OBVIOUS
  <2>2. goal \in SUBSET Nodes
    BY <1>1, <2>1 DEF Replace
  <2>3. PICK c : c = Effective
    OBVIOUS
  <2>4. c.joint \in Seq(SUBSET Nodes) /\ Len(c.joint) \in 1 .. 2 /\ Last(c.joint) \in SUBSET Nodes
        /\ c.nodes \subseteq meta.members \cup meta.revoked /\ c.nodes \in SUBSET Nodes
    BY <1>1, <2>3 DEF Last
  <2>5. PICK joint : joint = IF goal \in ToSet(c.joint) THEN <<goal>> ELSE <<Last(c.joint), goal>>
    OBVIOUS
  <2>6. joint \in Seq(SUBSET Nodes) /\ Len(joint) \in 1 .. 2
    <3>1. PICK last \in SUBSET Nodes : last = Last(c.joint)
      BY <2>4
    <3>2. <<goal>> \in Seq(SUBSET Nodes) /\ Len(<<goal>>) = 1
      BY <2>2
    <3>3. <<last, goal>> \in Seq(SUBSET Nodes) /\ Len(<<last, goal>>) = 2
      BY <2>2, <3>1
    <3>4. joint = <<goal>> \/ joint = <<last, goal>>
      BY <2>5, <3>1
    <3>5. CASE joint = <<goal>>
      BY <3>2, <3>5
    <3>6. CASE joint = <<last, goal>>
      BY <3>3, <3>6
    <3> QED
      BY <3>4, <3>5, <3>6
  <2>7. PICK d : d = next_coherent(Effective, goal)
    OBVIOUS
  <2>8. d = [joint |-> joint, nodes |-> c.nodes \ (VotersOf(c) \ UNION ToSet(joint))]
    BY <2>3, <2>5, <2>7 DEF next_coherent
  <2>9. /\ d \in [joint : Seq(SUBSET Nodes), nodes : SUBSET Nodes] /\ Len(d.joint) \in 1 .. 2
        /\ d.nodes \subseteq meta.members \cup meta.revoked
    BY <2>4, <2>6, <2>8
  <2> QED
    BY <1>2, <1>4, <2>1, <2>7, <2>9, ChangeKeeps DEF Replace
<1> QED
  BY <1>3, <1>4

\* Revoke: the membership only loses a node.
LEMMA RevokeKeeps ==
    ASSUME MaintenanceInv, NEW n \in Nodes, Revoke(n)
    PROVE  MaintenanceInv'
<1>1. /\ Effective \in [joint : Seq(SUBSET Nodes), nodes : SUBSET Nodes]
      /\ Len(Effective.joint) \in 1 .. 2 /\ Effective.nodes \subseteq meta.members \cup meta.revoked
  BY EffectiveOnRecord
<1>2. call[n] # None /\ call[n].at \in {"effect", "second"}
  BY DEF Revoke, Is
<1>3. CASE call[n].op.node \notin Effective.nodes
  BY <1>2, <1>3, ReachedKeeps DEF Revoke
<1>4. CASE call[n].op.node \in Effective.nodes
  <2>1. PICK d : d = [Effective EXCEPT !.nodes = @ \ {call[n].op.node}]
    OBVIOUS
  <2>2. /\ d \in [joint : Seq(SUBSET Nodes), nodes : SUBSET Nodes] /\ Len(d.joint) \in 1 .. 2
        /\ d.nodes \subseteq meta.members \cup meta.revoked
    BY <1>1, <2>1
  <2> QED
    BY <1>2, <1>4, <2>1, <2>2, ChangeKeeps DEF Revoke
<1> QED
  BY <1>3, <1>4

\* RequireDrain: a witness of a whole interval was begun after the revocation.
LEMMA RequireDrainKeeps ==
    ASSUME MaintenanceInv, NEW n \in Nodes, RequireDrain(n)
    PROVE  MaintenanceInv'
<1> USE Now
<1>0. /\ config' = config /\ leader' = leader /\ term' = term /\ truth' = truth /\ floor' = floor
      /\ faults' = faults /\ tail' = tail /\ effects' = effects /\ meta' = meta
      /\ Single' /\ Held' = Held
  BY DEF RequireDrain, Single, Memberships, Held
<1>1. /\ call[n] \in Calls /\ call[n] # None /\ CallBacked(call[n]) /\ call[n].at = "drain"
      /\ call[n].op \in Ops /\ call[n].term \in Nat
  BY DEF RequireDrain, Is, Calls
<1>2. Phase(call[n].op) \in {"Draining", "Completed"}
  BY <1>1 DEF CallBacked
<1>3. Kept /\ Carries
  BY <1>0, Unmoved
<1>4. /\ witness' \in [Nodes -> Drains \cup {None}] /\ witness'[n] \in Drains
      /\ witness'[n].op = call[n].op /\ WitnessBacked(witness[n])'
      /\ \A m \in Nodes \ {n} : witness'[m] = witness[m]
  <2>1. CASE witness[n] # None /\ witness[n].op = call[n].op /\ witness[n].term = call[n].term
    <3>1. witness' = witness /\ WitnessBacked(witness[n]) /\ witness[n] \in Drains
      BY <2>1 DEF RequireDrain, MaintenanceInv
    <3>2. WitnessBacked(witness[n])'
      BY <1>0, <3>1 DEF WitnessBacked, Phase
    <3> QED
      BY <2>1, <3>1, <3>2
  <2>2. CASE ~(witness[n] # None /\ witness[n].op = call[n].op /\ witness[n].term = call[n].term)
    <3>1. PICK w : w = [op |-> call[n].op, term |-> call[n].term, age |-> 0]
      OBVIOUS
    <3>2. w \in Drains /\ w.op = call[n].op /\ w.age = 0
      BY <1>1, <3>1 DEF Drains
    <3>3. witness' = [witness EXCEPT ![n] = w]
      BY <2>2, <3>1 DEF RequireDrain
    <3>4. witness'[n] = w /\ \A m \in Nodes \ {n} : witness'[m] = witness[m]
      BY <3>3
    <3>5. witness' \in [Nodes -> Drains \cup {None}]
      BY <3>2, <3>3
    <3>6. WitnessBacked(witness[n])'
      BY <1>0, <1>2, <3>2, <3>4 DEF WitnessBacked, Phase
    <3> QED
      BY <3>2, <3>4, <3>5, <3>6
  <2> QED
    BY <2>1, <2>2
<1>5. \A m \in Nodes : witness'[m] \in {witness[m], None} \/ WitnessBacked(witness[m])'
  BY <1>4
<1>6. CASE witness'[n].age >= Drain /\ term = call[n].term
  <2>1. PICK c \in Calls : call' = [call EXCEPT ![n] = c] /\ c.op = call[n].op
                          /\ c.term = call[n].term /\ c.at = "CompleteDrain"
    BY <1>1, <1>6, GoesIs DEF RequireDrain, Ats, Writes
  <2>2. witness'[n].age \in 0 .. Drain
    BY <1>4 DEF Drains
  <2>3. Phase(c.op)' = "Draining" => truth' = Drain
    BY <1>0, <1>4, <1>6, <2>1, <2>2 DEF WitnessBacked, Phase
  <2>4. CallBacked(c)'
    BY <1>0, <1>1, <1>2, <2>1, <2>3 DEF CallBacked, DrainBacked, Phase
  <2> QED
    BY <1>0, <1>3, <1>4, <1>5, <2>1, <2>4, CallStep
<1>7. CASE ~(witness'[n].age >= Drain /\ term = call[n].term)
  <2>1. call' = [call EXCEPT ![n] = None]
    BY <1>7 DEF RequireDrain, Ends
  <2> QED
    BY <1>0, <1>3, <1>4, <1>5, <2>1, CallStep
<1> QED
  BY <1>6, <1>7

\* Elect: what the new leader does not hold is gone, and nothing else moved.
LEMMA ElectKeeps ==
    ASSUME MaintenanceInv, NEW n \in Nodes, Elect(n)
    PROVE  MaintenanceInv'
<1> USE Now
<1>0. /\ config' = config /\ truth' = truth /\ floor' = floor /\ faults' = faults /\ call' = call
      /\ effects' = effects /\ witness' = witness /\ meta' = meta
      /\ leader' \in Leaders /\ term' \in 1 .. MaxTerm /\ term' \in Nat /\ term' >= term
  BY MaintenanceAssumption DEF Elect, MaintenanceInv, Shapes
<1>1. PICK k \in 0 .. Len(tail) : tail' = SubSeq(tail, 1, k)
  BY DEF Elect
<1>2. tail' \in Seq(Entries) /\ Held' \subseteq Held /\ Single'
  BY <1>1, Truncated DEF MaintenanceInv
<1>3. Kept /\ Carries
  BY <1>0, Unmoved
<1>4. Shapes'
  BY <1>0, <1>2 DEF MaintenanceInv, Shapes
<1> QED
  BY <1>0, <1>2, <1>3, <1>4, Assembled

\* Restart: a member forgets its call and its witness.
LEMMA RestartKeeps ==
    ASSUME MaintenanceInv, NEW n \in Nodes, Restart(n)
    PROVE  MaintenanceInv'
<1> USE Now
<1>0. /\ config' = config /\ leader' = leader /\ term' = term /\ truth' = truth /\ floor' = floor
      /\ faults' \in 0 .. MaxFaults /\ tail' = tail /\ effects' = effects /\ meta' = meta
      /\ Single' /\ Held' = Held
  BY DEF Restart, Single, Memberships, Held
<1>1. call' = [call EXCEPT ![n] = None] /\ witness' = [witness EXCEPT ![n] = None]
  BY DEF Restart
<1>2. /\ witness' \in [Nodes -> Drains \cup {None}]
      /\ \A m \in Nodes : witness'[m] \in {witness[m], None}
  BY <1>1
<1>3. Kept /\ Carries
  BY <1>0, Unmoved
<1> QED
  BY <1>0, <1>1, <1>2, <1>3, CallStep

\* Tick: no witness grows faster than the time since the revocation.
LEMMA TickKeeps ==
    ASSUME MaintenanceInv, Tick
    PROVE  MaintenanceInv'
<1> USE Now
<1>0. /\ config' = config /\ leader' = leader /\ term' = term /\ floor' = floor /\ call' = call
      /\ faults' = faults /\ tail' = tail /\ effects' = effects /\ meta' = meta
      /\ Single' /\ Held' = Held
  BY DEF Tick, Single, Memberships, Held
<1>1. truth' = (IF truth < Drain THEN truth + 1 ELSE truth) /\ truth' \in truth .. Drain
  BY DEF Tick
<1>2. NoPhase
  BY <1>0 DEF NoPhase, SameRecords
<1>3. Kept /\ Carries
  BY <1>0, <1>1, <1>2, StillKept
<1>4. ASSUME NEW n \in Nodes
      PROVE  /\ witness'[n] \in Drains \cup {None}
             /\ witness'[n] \in {witness[n], None} \/ WitnessBacked(witness[n])'
  <2>1. CASE witness[n] # None /\ witness[n].age < Drain
    <3>1. witness[n] \in Drains /\ WitnessBacked(witness[n])
      BY <2>1 DEF MaintenanceInv
    <3>2. witness'[n] = [witness[n] EXCEPT !.age = @ + 1]
      BY <2>1 DEF Tick
    <3>3. /\ witness'[n] \in Drains /\ witness'[n].op = witness[n].op
          /\ witness'[n].age = witness[n].age + 1 /\ witness[n].age \in Nat
      BY <2>1, <3>1, <3>2 DEF Drains
    <3>4. WitnessBacked(witness[n])'
      BY <1>0, <1>1, <2>1, <3>1, <3>3 DEF WitnessBacked, Phase
    <3> QED
      BY <3>3, <3>4
  <2>2. CASE ~(witness[n] # None /\ witness[n].age < Drain)
    BY <2>2 DEF Tick
  <2> QED
    BY <2>1, <2>2
<1>5. witness' \in [Nodes -> Drains \cup {None}]
  <2>1. PICK w : w = witness'
    OBVIOUS
  <2>2. w = [n \in Nodes |-> w[n]]
    BY <2>1 DEF Tick
  <2> QED
    BY <1>4, <2>1, <2>2
<1>6. Shapes'
  BY <1>0, <1>1, <1>5 DEF MaintenanceInv, Shapes
<1> QED
  BY <1>0, <1>3, <1>4, <1>6, Assembled

\* Commit: the entry moves one operation at most, and answers its call.
LEMMA CommitKeeps ==
    ASSUME MaintenanceInv, Commit
    PROVE  MaintenanceInv'
<1> USE Now
<1>0. /\ leader' = leader /\ term' = term /\ floor' = floor /\ faults' = faults
      /\ effects' = effects /\ witness' = witness /\ tail # <<>> /\ tail' = Tail(tail)
  BY DEF Commit
<1>1. /\ tail' \in Seq(Entries) /\ Held' \subseteq Held /\ Single'
      /\ Head(tail) \in Held /\ Head(tail) \in Entries
  BY <1>0, Shortened DEF MaintenanceInv
<1>2. PICK e : e = Head(tail)
  OBVIOUS
<1>3. e \in Held /\ e \in Entries /\ EntryBacked(e) /\ e.op \in Ops
  BY <1>1, <1>2 DEF MaintenanceInv, Entries
<1>4. /\ meta' = Reduce(e)
      /\ config' = (IF e.kind = "Membership" THEN e.config ELSE config)
      /\ call' = [n \in Nodes |-> IF Waits(n, e) THEN Answered(n, e) ELSE call[n]]
      /\ truth' = IF meta'.revoked # meta.revoked THEN 0 ELSE truth
  BY <1>2 DEF Commit
<1>5. meta' \in Metas /\ (meta' = meta \/ \E o \in Ops : Transition(o))
  BY <1>3, <1>4, ReduceMoves
<1>6. Kept /\ Carries
  <2>1. CASE meta' = meta
    BY <1>0, <1>4, <2>1, Unmoved
  <2>2. ASSUME NEW o \in Ops, Transition(o) PROVE Kept /\ Carries
    BY <1>0, <1>4, <1>5, <2>2, MovedKept
  <2> QED
    BY <1>5, <2>1, <2>2
<1>7. e.kind = "Membership" =>
        /\ meta' = meta /\ e.config \in [joint : Seq(SUBSET Nodes), nodes : SUBSET Nodes]
        /\ Len(e.config.joint) \in 1 .. 2 /\ e.config.nodes \subseteq meta.members \cup meta.revoked
  BY <1>3, <1>4 DEF Reduce, Entries, EntryBacked, Writes
<1>8. ASSUME NEW n \in Nodes
      PROVE  /\ call'[n] \in Calls \cup {None}
             /\ call'[n] \in {call[n], None} \/ CallBacked(call[n])'
  <2>1. CASE ~Waits(n, e)
    BY <1>4, <2>1
  <2>2. CASE Waits(n, e)
    <3>1. call[n] \in Calls /\ CallBacked(call[n]) /\ call[n].op = e.op /\ call[n].term \in 1 .. term
      BY <2>2 DEF Waits, CallBacked
    <3>2. PICK c : c = Answered(n, e)
      OBVIOUS
    <3>3. call'[n] = c
      BY <1>4, <2>2, <3>2
    <3>4. ASSUME e.kind = "Membership" PROVE c \in Calls /\ CallBacked(c)'
      <4>1. c = [call[n] EXCEPT !.at = IF Len(e.config.joint) > 1 THEN "second" ELSE "Finish"]
        BY <3>2, <3>4 DEF Answered
      <4>2. call[n].at = "joining"
        BY <2>2, <3>4 DEF Waits
      <4>3. /\ c \in Calls /\ c.op = call[n].op /\ c.term = call[n].term
            /\ c.at \in {"second", "Finish"}
        BY <3>1, <4>1 DEF Calls, Ats, Writes
      <4>4. Phase(c.op) \in Begun
        BY <3>1, <4>2, <4>3 DEF CallBacked
      <4>5. Phase(c.op)' \in Begun
        BY <1>7, <3>4, <4>4 DEF Phase
      <4> QED
        BY <1>0, <3>1, <4>3, <4>5 DEF CallBacked, Writes
    <3>5. ASSUME e.kind # "Membership" PROVE c \in Calls \cup {None} /\ (c # None => CallBacked(c)')
      <4>1. c = None \/ c = Route(e.op, call[n].term, meta')
        BY <3>2, <3>5 DEF Answered
      <4>2. PICK t \in Nat : t = call[n].term /\ t \in 1 .. term
        BY <3>1
      <4> QED
        BY <1>0, <1>3, <1>5, <4>1, <4>2, RoutedBacked
    <3>6. CallBacked(c)' => CallBacked(call[n])'
      BY <3>3 DEF CallBacked
    <3> QED
      BY <3>3, <3>4, <3>5, <3>6
  <2> QED
    BY <2>1, <2>2
<1>9. call' \in [Nodes -> Calls \cup {None}]
  <2>1. PICK f : f = call'
    OBVIOUS
  <2>2. f = [n \in Nodes |-> f[n]]
    BY <1>4, <2>1
  <2> QED
    BY <1>8, <2>1, <2>2
<1>10. Shapes'
  <2>1. truth' \in 0 .. Drain
    BY <1>4
  <2>2. config' \in [joint : Seq(SUBSET Nodes), nodes : SUBSET Nodes]
    BY <1>4, <1>7 DEF MaintenanceInv, Shapes
  <2> QED
    BY <1>0, <1>1, <1>5, <1>9, <2>1, <2>2 DEF MaintenanceInv, Shapes
<1>11. config' = config \/ (Len(config'.joint) \in 1 .. 2
                             /\ config'.nodes \subseteq meta'.members \cup meta'.revoked)
  BY <1>4, <1>7
<1> QED
  BY <1>0, <1>1, <1>6, <1>8, <1>10, <1>11, Assembled

----------------------------------------------------------------------------
(* The theorems *)

\* An authority that has begun no maintenance satisfies the invariant.
LEMMA MaintenanceInit == Init => MaintenanceInv
<1> SUFFICES ASSUME Init PROVE MaintenanceInv
  OBVIOUS
<1>1. None \notin Open \cup Terminal /\ None \notin Ops /\ Drain \in Nat /\ MaxTerm \in Nat \ {0}
      /\ MaxFaults \in Nat /\ Genesis \subseteq Nodes
  BY MaintenanceAssumption
<1>2. meta.phase = [op \in Ops |-> None] /\ meta \in Metas /\ meta.pending = None
      /\ meta.voters = Genesis /\ meta.members = Genesis /\ meta.revoked = {} /\ meta.capacity = 1
  BY <1>1 DEF Init, Metas, Phases
<1>3. tail = <<>> /\ tail \in Seq(Entries) /\ Held = {} /\ Memberships(tail) = {}
  BY DEF Init, Held, Memberships
<1>4. config.joint \in Seq(SUBSET Nodes) /\ Len(config.joint) = 1 /\ config.nodes = Genesis
      /\ config \in [joint : Seq(SUBSET Nodes), nodes : SUBSET Nodes]
  <2>1. PICK g \in SUBSET Nodes : g = Genesis
    BY <1>1
  <2>2. <<g>> \in Seq(SUBSET Nodes) /\ Len(<<g>>) = 1
    OBVIOUS
  <2>3. config = [joint |-> <<g>>, nodes |-> g]
    BY <2>1 DEF Init
  <2> QED
    BY <2>1, <2>2, <2>3
<1>5. Shapes
  BY <1>1, <1>2, <1>3, <1>4 DEF Init, Shapes
<1>6. RecordsBacked /\ PendingIsTheOpenOne
  BY <1>1, <1>2 DEF RecordsBacked, PendingIsTheOpenOne, Phase, Open, Terminal, Begun
<1>7. MembersFit /\ RevocationDrained
  BY <1>1, <1>2 DEF Init, MembersFit, RevocationDrained
<1> QED
  BY <1>2, <1>3, <1>4, <1>5, <1>6, <1>7 DEF MaintenanceInv, Init

\* Every step of a call, of the leader, of a restart and of the clock preserves it.
LEMMA MaintenanceStep == MaintenanceInv /\ [Next]_vars => MaintenanceInv'
<1> SUFFICES ASSUME MaintenanceInv, [Next]_vars PROVE MaintenanceInv'
  OBVIOUS
<1>1. ASSUME NEW n \in Nodes, Work(n) PROVE MaintenanceInv'
  <2>1. CASE CallFails(n)
    BY <2>1, Now, EndKeeps DEF CallFails
  <2> QED
    BY <1>1, <2>1, PreflightKeeps, ProposeKeeps, EnrollKeeps, ReplaceKeeps, RevokeKeeps,
       RequireDrainKeeps DEF Work
<1>2. ASSUME NEW n \in Nodes, CallTimesOut(n) PROVE MaintenanceInv'
  <2>1. faults' \in 0 .. MaxFaults
    BY <1>2, Now DEF CallTimesOut
  <2> QED
    BY <1>2, <2>1, EndKeeps DEF CallTimesOut
<1>3. CASE UNCHANGED vars
  <2>1. Single' /\ Held' = Held /\ Shapes'
    BY <1>3, Now DEF vars, Single, Memberships, Held, MaintenanceInv, Shapes
  <2>2. Kept /\ Carries
    BY <1>3, Now, Unmoved DEF vars
  <2> QED
    BY <1>3, <2>1, <2>2, Assembled DEF vars
<1> QED
  BY <1>1, <1>2, <1>3, StartKeeps, StopKeeps, PreflightFailsKeeps, ElectKeeps, RestartKeeps,
     CommitKeeps, TickKeeps DEF Next

\* What the invariant says of the records, the membership and the drain.
LEMMA MaintenanceImplies == MaintenanceInv => RecordsLead /\ RevocationDrained
<1> SUFFICES ASSUME MaintenanceInv PROVE RecordsLead
  BY DEF MaintenanceInv
<1>1. TypeOK
  <2>1. \A n \in Nodes : call[n] # None => call[n].op \in Ops /\ call[n].term \in 1 .. term
    BY Now DEF CallBacked, Calls
  <2> QED
    BY <2>1 DEF MaintenanceInv, TypeOK, Shapes, Metas, Phases, RecordsBacked
<1>2. StoppedHadNoEffect
  BY MaintenanceAssumption DEF MaintenanceInv, StoppedHadNoEffect, Begun, Open, Terminal
<1>3. JournalPrecedesMembership
  BY EffectiveOnRecord DEF JournalPrecedesMembership
<1> QED
  BY <1>1, <1>2, <1>3 DEF MaintenanceInv, RecordsLead

\* The inductive invariant holds in every reachable state.
THEOREM MaintenanceSound == Spec => []MaintenanceInv
  BY MaintenanceInit, MaintenanceStep, PTL DEF Spec

\* One operation is open at a time; the Raft membership changes only for a
\* dispatched one, to recorded members, and every member on record has durably
\* acknowledged the capacity in force.
THEOREM RecordsLeadAlways == Spec => []RecordsLead
  BY MaintenanceSound, MaintenanceImplies, PTL

\* A revocation is complete only after the whole drain interval.
THEOREM RevocationDrainedAlways == Spec => []RevocationDrained
  BY MaintenanceSound, MaintenanceImplies, PTL
=============================================================================
