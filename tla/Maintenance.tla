----------------------------- MODULE Maintenance -----------------------------
(***************************************************************************)
(* Membership and capacity maintenance of an authority partition.  An      *)
(* operation is a permanent record of the group (maintenance_state.rs)     *)
(* whose phases are written around an external change of the Raft          *)
(* membership by whichever leader serves its caller                        *)
(* (maintenance_service.rs).  A leader may lose its office at any await    *)
(* and gain it again.                                                      *)
(*                                                                         *)
(* `meta` is what committed entries made of the group's records, `config`  *)
(* the committed Raft membership, and `tail` what the leader has appended  *)
(* and not yet committed; a leader applies what it commits.  A Raft        *)
(* membership takes effect when it is appended.                            *)
(***************************************************************************)
EXTENDS Integers, Sequences, FiniteSets, SequencesExt

CONSTANTS
    Nodes,        \* members, installed or to be enrolled
    Genesis,      \* the voters of the bootstrap
    Leaders,      \* the members that may win an election
    Ops,          \* the operations: a record [id, kind, ...] each
    Drain,        \* AuthorityManifest::drain_ms, in ticks
    MaxTerm,      \* elections
    MaxFaults,    \* restarts, timeouts and failed readiness checks
    None

Kinds == {"EnrollLearner", "ReplaceVoters", "RevokeMember", "SetCapacity"}
Terminal == {"Completed", "Stopped", "Rejected"}
Open == {"Prepared", "Dispatched", "Draining"}

ASSUME MaintenanceAssumption ==
    /\ Genesis \subseteq Nodes /\ Genesis # {}
    /\ Leaders \subseteq Nodes
    /\ \A op \in Ops :
          /\ op.kind \in Kinds
          /\ op.kind \in {"EnrollLearner", "RevokeMember"} => op.node \in Nodes
          /\ op.kind = "SetCapacity" => op.size \in Nat
    /\ {Drain, MaxFaults} \subseteq Nat /\ MaxTerm \in Nat \ {0}
    /\ None \notin Ops /\ None \notin Open \cup Terminal

VARIABLES
    meta,    \* the operational records of the group
    config,  \* committed Raft membership: joint voter sets and nodes
    tail,    \* entries appended and not committed
    leader,
    term,
    call,    \* per member: the maintenance_owned it runs, holding the proposal lock
    floor,   \* per member: the durable resource floor it acknowledged
    witness, \* per member: its drain witness
    truth,   \* ticks since the pending revocation was committed
    effects, \* operations whose Raft change was ever appended
    faults

vars == <<meta, config, tail, leader, term, call, floor, witness, truth, effects, faults>>

Phase(op) == meta.phase[op]

(* ---- the Raft membership (external) ------------------------------------ *)

Memberships(s) == {i \in DOMAIN s : s[i].kind = "Membership"}

\* The effective membership: the last one in the log.
EffectiveIn(s) == IF Memberships(s) = {} THEN config ELSE s[Max(Memberships(s))].config
Effective == EffectiveIn(tail)

VotersOf(c) == UNION ToSet(c.joint)

\* Membership::next_coherent with retain = false: one step towards the goal.
\* A voter that is in none of the new sets is no longer a node at all.
next_coherent(c, goal) ==
    LET joint == IF goal \in ToSet(c.joint) THEN <<goal>> ELSE <<Last(c.joint), goal>>
    IN [joint |-> joint, nodes |-> c.nodes \ (VotersOf(c) \ UNION ToSet(joint))]

\* The leader of a term has the whole log of the terms before it committed
\* before a barrier returns.
Barrier(n) == leader = n /\ \A i \in DOMAIN tail : tail[i].log = term

(* ---- entries of the log ------------------------------------------------ *)

\* prepare_maintenance_start: what an operation needs when it is recorded.
\* `drawn` says whether the revision its command names is still current.
Startable(m, op) ==
    /\ m.drawn[op] = "fresh"
    /\ op.kind = "EnrollLearner" => op.node \notin m.members \cup m.revoked
    /\ op.kind = "ReplaceVoters" => op.voters \subseteq m.members
    /\ op.kind = "RevokeMember" => op.node \in m.members \ m.voters

\* Every write of the operational records moves their revision.
Moved(m) == [m EXCEPT !.drawn = [op \in Ops |-> IF @[op] = "no" THEN "no" ELSE "stale"]]

InPhase(m, op, phase) ==
    Moved([m EXCEPT !.phase[op] = phase,
                    !.pending = IF phase \in Open THEN op
                                ELSE IF @ = op THEN None ELSE @])

\* reduce_maintenance, Begin: another open operation is refused without a record.
ApplyBegin(m, op) ==
    IF m.phase[op] # None \/ m.pending # None THEN m
    ELSE IF ~Startable(m, op) THEN InPhase(m, op, "Rejected")
    ELSE IF op.kind = "SetCapacity"
         THEN InPhase([m EXCEPT !.capacity = op.size], op, "Completed")
         ELSE InPhase(m, op, "Prepared")

\* Mutant: an operation can be stopped while it is unresolved.
ApplyStop_Open(m, op) == IF m.phase[op] \in Open THEN InPhase(m, op, "Stopped") ELSE m

ApplyStop(m, op) == IF m.phase[op] = "Prepared" THEN InPhase(m, op, "Stopped") ELSE m

\* A learner is a member from its dispatch on.
ApplyDispatch(m, op) ==
    IF m.phase[op] # "Prepared" THEN m
    ELSE InPhase([m EXCEPT !.members =
                     IF op.kind = "EnrollLearner" THEN @ \cup {op.node} ELSE @],
                 op, "Dispatched")

\* Membership c is what operation op asked for.
Achieved(op, c) ==
    \/ op.kind = "EnrollLearner" /\ op.node \in c.nodes
    \/ op.kind = "ReplaceVoters" /\ c.joint = <<op.voters>>
    \/ op.kind = "RevokeMember" /\ op.node \notin c.nodes

\* Finish, against the membership committed before the entry.
ApplyFinish(m, op, c) ==
    IF m.phase[op] # "Dispatched" \/ ~Achieved(op, c) THEN m
    ELSE IF op.kind = "RevokeMember"
         THEN InPhase([m EXCEPT !.members = @ \ {op.node}, !.revoked = @ \cup {op.node}],
                      op, "Draining")
         ELSE InPhase([m EXCEPT !.voters = IF op.kind = "ReplaceVoters" THEN op.voters ELSE @],
                      op, "Completed")

ApplyCompleteDrain(m, op) ==
    IF m.phase[op] = "Draining" THEN InPhase(m, op, "Completed") ELSE m

\* An entry prepared in another term than the one it is ordered in writes nothing.
Reduce(e) ==
    IF e.kind = "Membership" \/ e.term # e.log THEN meta
    ELSE IF e.kind = "Begin" THEN ApplyBegin(meta, e.op)
    ELSE IF e.kind = "Stop" THEN ApplyStop(meta, e.op)
    ELSE IF e.kind = "Dispatch" THEN ApplyDispatch(meta, e.op)
    ELSE IF e.kind = "Finish" THEN ApplyFinish(meta, e.op, config)
    ELSE ApplyCompleteDrain(meta, e.op)

(* ---- a call ------------------------------------------------------------- *)

\* preflight_maintenance: who must acknowledge which floor, as configured now.
Required(m, op) ==
    [who |-> IF op.kind = "EnrollLearner" THEN m.members \cup {op.node}
             ELSE IF op.kind = "SetCapacity" THEN m.members ELSE {},
     size |-> IF op.kind = "SetCapacity" /\ op.size > m.capacity THEN op.size ELSE m.capacity]

At(op, t, at, m) == [op |-> op, term |-> t, at |-> at, need |-> Required(m, op)]

\* maintenance_owned goes on from the phase its status has.
Route(op, t, m) ==
    LET next == [Prepared |-> "ready", Dispatched |-> "effect", Draining |-> "drain"]
    IN IF m.phase[op] \in Open THEN At(op, t, next[m.phase[op]], m) ELSE None

Goes(n, at) == call' = [call EXCEPT ![n].at = at]
Ends(n) == call' = [call EXCEPT ![n] = None]
Is(n, at) == call[n] # None /\ call[n].at = at

\* Start, Resume or Stop of operation op, behind the proposal lock and a barrier.
\* The command of a first Start names the revision its author has just read.
StartCall(n, op) ==
    /\ call[n] = None
    /\ Barrier(n)
    /\ IF Phase(op) = None
       THEN /\ call' = [call EXCEPT ![n] = At(op, term, "preflight", meta)]
            /\ meta' = [meta EXCEPT !.drawn[op] = IF @ = "no" THEN "fresh" ELSE @]
       ELSE /\ call' = [call EXCEPT ![n] = Route(op, term, meta)]
            /\ UNCHANGED meta
    /\ UNCHANGED <<config, tail, leader, term, floor, witness, truth, effects, faults>>

StopCall(n, op) ==
    /\ call[n] = None
    /\ Barrier(n)
    /\ Phase(op) # None
    /\ call' = [call EXCEPT ![n] = At(op, term, "Stop", meta)]
    /\ UNCHANGED <<meta, config, tail, leader, term, floor, witness, truth, effects, faults>>

\* reserve_node_resources: a durable floor never goes down.
Reserve(who, size) ==
    floor' = [m \in Nodes |-> IF m \in who /\ floor[m] < size THEN size ELSE floor[m]]

\* preflight_maintenance: each member in turn acknowledges what it must hold.
Preflight(n) ==
    /\ Is(n, "preflight") \/ Is(n, "ready")
    /\ Reserve(call[n].need.who, call[n].need.size)
    /\ Goes(n, IF call[n].at = "ready" THEN "Dispatch" ELSE "Begin")
    /\ UNCHANGED <<meta, config, tail, leader, term, witness, truth, effects, faults>>

\* Some members acknowledged when one did not.
PreflightFails(n) ==
    /\ faults < MaxFaults
    /\ Is(n, "preflight") \/ Is(n, "ready")
    /\ \E some \in SUBSET call[n].need.who : Reserve(some, call[n].need.size)
    /\ Ends(n)
    /\ faults' = faults + 1
    /\ UNCHANGED <<meta, config, tail, leader, term, witness, truth, effects>>

Writes == {"Begin", "Stop", "Dispatch", "Finish", "CompleteDrain"}

\* maintenance_write: the barrier of its term may be long past when Raft takes
\* the entry.
Propose(n) ==
    /\ call[n] # None /\ call[n].at \in Writes
    /\ leader = n
    /\ tail' = Append(tail, [kind |-> call[n].at, op |-> call[n].op,
                             term |-> call[n].term, log |-> term])
    /\ Goes(n, "wait")
    /\ UNCHANGED <<meta, config, leader, term, floor, witness, truth, effects, faults>>

Change(n, c) ==
    /\ tail' = Append(tail, [kind |-> "Membership", config |-> c, op |-> call[n].op,
                             term |-> call[n].term, log |-> term])
    /\ effects' = effects \cup {call[n].op}

\* No change of the membership is under way.
Settled == Memberships(tail) = {}

\* The external change of a dispatched operation.  Neither the barrier before it
\* nor Raft compares the term of the call.
Enroll(n) ==
    /\ Is(n, "effect") /\ call[n].op.kind = "EnrollLearner"
    /\ leader = n /\ Settled
    /\ Change(n, [Effective EXCEPT !.nodes = @ \cup {call[n].op.node}])
    /\ Goes(n, "joining")
    /\ UNCHANGED <<meta, config, leader, term, floor, witness, truth, faults>>

\* Mutant: a joint membership that includes the goal is taken for it.
Replace_JointIsEnough(n) ==
    /\ Is(n, "effect") \/ Is(n, "second")
    /\ call[n].op.kind = "ReplaceVoters"
    /\ leader = n
    /\ call[n].op.voters \subseteq Effective.nodes
    /\ IF Is(n, "effect") /\ call[n].op.voters \in ToSet(Effective.joint)
       THEN Goes(n, "Finish") /\ UNCHANGED <<tail, effects>>
       ELSE /\ Settled
            /\ Change(n, next_coherent(Effective, call[n].op.voters))
            /\ Goes(n, "joining")
    /\ UNCHANGED <<meta, config, leader, term, floor, witness, truth, faults>>

Replace(n) ==
    /\ Is(n, "effect") \/ Is(n, "second")
    /\ call[n].op.kind = "ReplaceVoters"
    /\ leader = n
    /\ call[n].op.voters \subseteq Effective.nodes
    /\ IF Is(n, "effect") /\ Effective.joint = <<call[n].op.voters>>
       THEN Goes(n, "Finish") /\ UNCHANGED <<tail, effects>>
       ELSE /\ Settled
            /\ Change(n, next_coherent(Effective, call[n].op.voters))
            /\ Goes(n, "joining")
    /\ UNCHANGED <<meta, config, leader, term, floor, witness, truth, faults>>

Revoke(n) ==
    /\ Is(n, "effect") /\ call[n].op.kind = "RevokeMember"
    /\ leader = n
    /\ IF call[n].op.node \notin Effective.nodes
       THEN Goes(n, "Finish") /\ UNCHANGED <<tail, effects>>
       ELSE /\ Settled
            /\ call[n].op.node \notin VotersOf(Effective)
            /\ Change(n, [Effective EXCEPT !.nodes = @ \ {call[n].op.node}])
            /\ Goes(n, "joining")
    /\ UNCHANGED <<meta, config, leader, term, floor, witness, truth, faults>>

\* Mutant: any witness of this member will do.
RequireDrain_AnyAge(n) ==
    /\ Is(n, "drain")
    /\ Goes(n, "CompleteDrain")
    /\ UNCHANGED <<meta, config, tail, leader, term, floor, witness, truth, effects, faults>>

\* require_drain: the call goes on after a whole interval of its own witness, and
\* otherwise ends with the operation still draining.
RequireDrain(n) ==
    /\ Is(n, "drain")
    /\ IF witness[n] # None /\ witness[n].op = call[n].op /\ witness[n].term = call[n].term
       THEN UNCHANGED witness
       ELSE witness' = [witness EXCEPT ![n] = [op |-> call[n].op, term |-> call[n].term, age |-> 0]]
    /\ IF witness'[n].age >= Drain /\ term = call[n].term
       THEN Goes(n, "CompleteDrain") ELSE Ends(n)
    /\ UNCHANGED <<meta, config, tail, leader, term, floor, truth, effects, faults>>

\* A step that cannot be taken ends the call: the leader changed, a membership is
\* in progress, a voter is no node, or the member is still a voter.
Blocked(n) ==
    \/ leader # n
    \/ call[n].at \in Writes \cup {"wait", "joining"} /\ term # call[n].term
    \/ call[n].at \in {"effect", "second"} /\ ~Settled
    \/ /\ call[n].at \in {"effect", "second"} /\ call[n].op.kind = "ReplaceVoters"
       /\ ~(call[n].op.voters \subseteq Effective.nodes)
    \/ /\ call[n].at = "effect" /\ call[n].op.kind = "RevokeMember"
       /\ call[n].op.node \in VotersOf(Effective)

CallFails(n) ==
    /\ call[n] # None
    /\ Blocked(n)
    /\ Ends(n)
    /\ UNCHANGED <<meta, config, tail, leader, term, floor, witness, truth, effects, faults>>

\* A wait that times out: the entry stays where it is.
CallTimesOut(n) ==
    /\ faults < MaxFaults
    /\ Is(n, "wait") \/ Is(n, "joining")
    /\ Ends(n)
    /\ faults' = faults + 1
    /\ UNCHANGED <<meta, config, tail, leader, term, floor, witness, truth, effects>>

(* ---- the group ---------------------------------------------------------- *)

\* The call that waits for entry e, if it still does.
Waits(n, e) ==
    /\ leader = n /\ call[n] # None /\ call[n].term = term /\ e.log = term
    /\ call[n].op = e.op
    /\ call[n].at = IF e.kind = "Membership" THEN "joining" ELSE "wait"

\* What the answer makes of the call: a status, or the next step of the change.
Answered(n, e) ==
    IF e.kind = "Membership"
    THEN [call[n] EXCEPT !.at = IF Len(e.config.joint) > 1 THEN "second" ELSE "Finish"]
    ELSE IF e.kind = "Stop" \/ (e.kind = "Finish" /\ meta'.phase[e.op] = "Dispatched")
         THEN None ELSE Route(e.op, call[n].term, meta')

Commit ==
    /\ tail # <<>>
    /\ LET e == Head(tail)
       IN /\ meta' = Reduce(e)
          /\ config' = IF e.kind = "Membership" THEN e.config ELSE config
          /\ call' = [n \in Nodes |-> IF Waits(n, e) THEN Answered(n, e) ELSE call[n]]
          /\ truth' = IF meta'.revoked # meta.revoked THEN 0 ELSE truth
    /\ tail' = Tail(tail)
    /\ UNCHANGED <<leader, term, floor, witness, effects, faults>>

\* A voter of the log it holds wins an election; what it does not hold is gone.
Elect(n) ==
    /\ term < MaxTerm
    /\ n \in Leaders
    /\ \E k \in 0 .. Len(tail) :
          /\ n \in VotersOf(EffectiveIn(SubSeq(tail, 1, k)))
          /\ tail' = SubSeq(tail, 1, k)
    /\ leader' = n
    /\ term' = term + 1
    /\ UNCHANGED <<meta, config, call, floor, witness, truth, effects, faults>>

Restart(n) ==
    /\ faults < MaxFaults
    /\ call[n] # None \/ witness[n] # None
    /\ call' = [call EXCEPT ![n] = None]
    /\ witness' = [witness EXCEPT ![n] = None]
    /\ faults' = faults + 1
    /\ UNCHANGED <<meta, config, tail, leader, term, floor, truth, effects>>

Tick ==
    /\ truth < Drain \/ \E n \in Nodes : witness[n] # None /\ witness[n].age < Drain
    /\ truth' = IF truth < Drain THEN truth + 1 ELSE truth
    /\ witness' = [n \in Nodes |->
                     IF witness[n] # None /\ witness[n].age < Drain
                     THEN [witness[n] EXCEPT !.age = @ + 1] ELSE witness[n]]
    /\ UNCHANGED <<meta, config, tail, leader, term, call, floor, effects, faults>>

Init ==
    /\ meta = [phase |-> [op \in Ops |-> None], drawn |-> [op \in Ops |-> "no"], pending |-> None,
               voters |-> Genesis, members |-> Genesis, revoked |-> {}, capacity |-> 1]
    /\ config = [joint |-> <<Genesis>>, nodes |-> Genesis]
    /\ tail = <<>>
    /\ leader \in Leaders \cap Genesis
    /\ term = 1
    /\ call = [n \in Nodes |-> None]
    /\ floor = [n \in Nodes |-> 1]
    /\ witness = [n \in Nodes |-> None]
    /\ truth = Drain
    /\ effects = {}
    /\ faults = 0

Work(n) ==
    \/ Preflight(n) \/ Propose(n) \/ Enroll(n) \/ Replace(n) \/ Revoke(n)
    \/ RequireDrain(n) \/ CallFails(n)

Next ==
    \/ \E n \in Nodes : \/ \E op \in Ops : StartCall(n, op) \/ StopCall(n, op)
                        \/ Work(n) \/ PreflightFails(n) \/ CallTimesOut(n)
                        \/ Elect(n) \/ Restart(n)
    \/ Commit \/ Tick

Spec == Init /\ [][Next]_vars

\* An operator resumes what is open on the leader.  The proposal lock is fair.
Resume(n) == \E op \in Ops : Phase(op) \in Open /\ StartCall(n, op)

\* Entries commit, calls run, time passes, operators resume.
Fairness ==
    /\ WF_vars(Commit) /\ WF_vars(Tick)
    /\ \A n \in Leaders : WF_vars(Work(n)) /\ SF_vars(Resume(n))

FairSpec == Spec /\ Fairness

(* ---- properties --------------------------------------------------------- *)

TypeOK ==
    /\ \A op \in Ops : meta.phase[op] \in Open \cup Terminal \cup {None}
    /\ meta.voters \subseteq meta.members
    /\ meta.members \cup meta.revoked \subseteq Nodes
    /\ Len(config.joint) \in 1 .. 2
    /\ leader \in Leaders /\ term \in 1 .. MaxTerm
    /\ \A n \in Nodes : call[n] # None => call[n].op \in Ops /\ call[n].term \in 1 .. term
    /\ effects \subseteq Ops /\ faults \in 0 .. MaxFaults /\ truth \in 0 .. Drain

\* The pending identity is the one open operation, whichever leaders wrote its
\* phases and however often they were written.
PendingIsTheOpenOne ==
    \A op \in Ops : Phase(op) \in Open <=> meta.pending = op

\* An operation that was stopped or rejected never touched the Raft membership,
\* even when a call that found it prepared is still running on an old leader.
StoppedHadNoEffect ==
    \A op \in effects : Phase(op) \notin {"Stopped", "Rejected", "Prepared", None}

\* The records precede Raft: whoever is in the membership the leader uses is a
\* member on record, or was.
JournalPrecedesMembership ==
    Effective.nodes \subseteq meta.members \cup meta.revoked

\* Every member on record has durably acknowledged the capacity in force.
MembersFit ==
    \A n \in meta.members : floor[n] >= meta.capacity

\* The records lead: one operation is open at a time, the membership changes only
\* for a dispatched one and only to recorded members, and those fit.
RecordsLead ==
    /\ TypeOK /\ PendingIsTheOpenOne /\ StoppedHadNoEffect
    /\ JournalPrecedesMembership /\ MembersFit

\* A revocation is reported complete only after the whole interval: while less has
\* passed since the last one, its operation is still draining.
RevocationDrained ==
    truth < Drain => \E op \in Ops : op.kind = "RevokeMember" /\ Phase(op) = "Draining"

\* A dispatched operation resolves forward.
DispatchedResolves ==
    \A op \in Ops : Phase(op) = "Dispatched" ~> Phase(op) \in Terminal
=============================================================================
