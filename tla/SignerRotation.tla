--------------------------- MODULE SignerRotation ---------------------------
(***************************************************************************)
(* Rotation of an authority partition's operational signing key.  The      *)
(* replicated signing head (signing_state.rs, signer_roster.rs) stages and *)
(* activates a successor generation over a frozen roster of verifiers; each *)
(* member's own durable trust record (live_trust.rs) follows it under a    *)
(* permission of the group; the member then reloads its key; and coverage  *)
(* records collect who has followed.  Leases are issued all the while.     *)
(*                                                                         *)
(* Generation 1 is the installed one and 2 its successor: the head never   *)
(* clears its retirement, so there is one rotation.  A certificate is its  *)
(* generation.  `meta` is what the group has committed; a leader applies   *)
(* what it commits, and `view` keeps what a deposed leader that does not   *)
(* know it still believes.                                                 *)
(***************************************************************************)
EXTENDS Integers, FiniteSets

CONSTANTS
    Members,        \* authority members: each has a verifier and may lead
    Others,         \* verifiers of other nodes, named by tenants and targets
    Enrolled,       \* verifiers already enrolled when the rotation is planned
    Covered,        \* members whose coverage is collected
    Operated,       \* members whose local trust an operator administers
    Requests,       \* lease requests in flight
    RetirementDrain,\* SigningDomain::retirement_drain_ms, in ticks
    MaxAttempts,    \* command identities per member and phase
    MaxPending,     \* proposals in the log that nobody waits for in order
    MaxEpoch,       \* administrator policies
    MaxTerm,        \* leaders that win an election without a fault
    MaxFaults,      \* crashes, uncertain commits, cancelled calls, clock jumps
    None

ASSUME RotationAssumption ==
    /\ RetirementDrain \in Nat \ {0}
    /\ {MaxAttempts, MaxPending, MaxFaults} \subseteq Nat
    /\ {MaxEpoch, MaxTerm} \subseteq Nat \ {0}
    /\ IsFiniteSet(Members)
    /\ Members \cap Others = {}
    /\ Enrolled \subseteq Members \cup Others
    /\ Covered \subseteq Operated /\ Operated \subseteq Members

Verifiers == Members \cup Others
Kinds == {"Stage", "Activate", "CompleteRetirement"}

\* A SignerTrustCommand: its identity, the member it is for, and the local
\* operation it names as its predecessor (0 for a stage).
Ops == [v : Members, kind : Kinds, k : 1 .. MaxAttempts, after : 0 .. MaxAttempts]

\* A RetirementWitness: the time it has seen pass, and the last reading it kept.
Witnesses == [age : Int, last : Int]

\* None is neither a command nor a witness.
ASSUME NoneAssumption == None \notin Ops /\ None \notin Witnesses

VARIABLES
    meta,      \* the committed state of the group, its leader and term
    view,      \* per member: None, or the older state it still acts on
    proposals, \* entries appended and not yet applied or truncated
    trust,     \* per member: the durable LocalSignerTrustRecord and receipts
    live,      \* per member: the live owner: closed, retirement witness
    truth,     \* per member: ticks really passed since its activation
    slot,      \* per member: generation of the loaded operational signer
    inv,       \* per member: the administrative invocation being served
    observed,  \* per member: the activation its coverage caller observed
    request,   \* per request: a lease on its way to its caller
    faults

vars == <<meta, view, proposals, trust, live, truth, slot, inv, observed,
          request, faults>>

Frozen(m) == m.staged \/ m.retirement

\* What member n goes by: the group's state, or what it knew when deposed.
View(n) == IF view[n] = None THEN meta ELSE view[n]

Completed(m, op) == op \in DOMAIN m.ops /\ m.ops[op].phase = "Completed"

(* ---- the signing head and the roster ---------------------------------- *)

\* freeze_signer_roster: everybody who must learn of the successor is enrolled.
RosterComplete(m) == Members \cup m.referenced \subseteq m.enrolled

\* check_target_verifier_admission and check_new_verifier_admission: a tenant,
\* target or intent that names verifier v.
MayReference(m, v) == ~Frozen(m) \/ v \in m.enrolled

Reference(v) ==
    /\ v \in Others \ meta.referenced
    /\ MayReference(meta, v)
    /\ meta' = [meta EXCEPT !.referenced = @ \cup {v}]
    /\ UNCHANGED <<view, proposals, trust, live, truth, slot, inv, observed, request, faults>>

\* ReplaceAdministrators, as far as signer maintenance is concerned.
ChangePolicy ==
    /\ meta.epoch < MaxEpoch
    /\ meta' = [meta EXCEPT !.epoch = @ + 1]
    /\ UNCHANGED <<view, proposals, trust, live, truth, slot, inv, observed, request, faults>>

\* IssuerSignerDirective::validate_for_head: the head a directive needs.
ValidForHead(m, op) == IF op.kind = "Stage" THEN Frozen(m) ELSE m.retirement

\* issuer_signer_dependencies: the permission of its predecessor, same member.
PredecessorKind(kind) == IF kind = "Activate" THEN "Stage" ELSE "Activate"
HasPredecessor(m, op) ==
    \/ op.kind = "Stage"
    \/ \E q \in DOMAIN m.ops :
          /\ q.v = op.v /\ q.k = op.after
          /\ q.kind = PredecessorKind(op.kind)
          /\ Completed(m, q)

DirectiveValid(m, op) == ValidForHead(m, op) /\ HasPredecessor(m, op)

(* ---- entries of the log ----------------------------------------------- *)
(* A proposal carries the policy epoch and the operational revision its    *)
(* author read.  `fresh` says whether that revision is still current: every *)
(* entry that writes moves it, and with it ends the freshness of the rest. *)

Propose(cmd) ==
    /\ Cardinality(proposals) < MaxPending
    /\ proposals' = proposals \cup {[cmd |-> cmd, epoch |-> meta.epoch, fresh |-> TRUE]}

Stale(p) == {[q EXCEPT !.fresh = FALSE] : q \in proposals \ {p}}

\* signing_maintenance, Start: what an administrator who looked asks for.
Sensible(cmd) ==
    CASE cmd.type = "EnrollSignerVerifier" -> cmd.v \notin meta.enrolled
      [] cmd.type = "StageSignerGeneration" -> ~Frozen(meta)
      [] OTHER -> meta.staged

ProposeGlobal(cmd) ==
    /\ Sensible(cmd)
    /\ Propose(cmd)
    /\ UNCHANGED <<meta, view, trust, live, truth, slot, inv, observed, request, faults>>

\* prepare_maintenance_start and prepare_signing_transition: what a command of
\* the head, or a permission, needs when it is applied.
Acceptable(m, p) ==
    /\ p.fresh
    /\ CASE p.cmd.type = "EnrollSignerVerifier" -> ~Frozen(m) /\ p.cmd.v \notin m.enrolled
         [] p.cmd.type = "StageSignerGeneration" -> RosterComplete(m) /\ ~Frozen(m)
         [] p.cmd.type = "ActivateSignerGeneration" -> m.staged
         [] p.cmd.type = "AuthorizeSignerTrust" -> DirectiveValid(m, p.cmd.op)
         [] OTHER -> FALSE

\* coverage_permission_committed: the marker of a dispatch that waits for it.
Marked(m, op) == m.dispatch[op.v] = op

ApplyEnroll(p) ==
    /\ p.cmd.type = "EnrollSignerVerifier"
    /\ meta' = [meta EXCEPT !.enrolled = @ \cup {p.cmd.v}]

\* The stage and, in the same write, the frozen roster it is for.
ApplyStage(p) ==
    /\ p.cmd.type = "StageSignerGeneration"
    /\ meta' = [meta EXCEPT !.staged = TRUE, !.roster = meta.enrolled]

ApplyActivate(p) ==
    /\ p.cmd.type = "ActivateSignerGeneration"
    /\ meta' = [meta EXCEPT !.staged = FALSE, !.retirement = TRUE, !.active = 2]

Status(m, op, phase) ==
    [q \in DOMAIN m.ops \cup {op} |->
        IF q = op THEN [phase |-> phase, epoch |-> m.epoch] ELSE m.ops[q]]

ApplyPermission(p) ==
    /\ p.cmd.type = "AuthorizeSignerTrust"
    /\ meta' = [meta EXCEPT !.ops = Status(meta, p.cmd.op, "Completed"),
                            !.marker[p.cmd.op.v] = @ \/ Marked(meta, p.cmd.op)]

\* A permission whose identity already has an outcome is answered with it.
Replayed(p) == p.cmd.type = "AuthorizeSignerTrust" /\ p.cmd.op \in DOMAIN meta.ops

Maintenance == {"EnrollSignerVerifier", "StageSignerGeneration",
                "ActivateSignerGeneration", "AuthorizeSignerTrust"}

\* A rejection is permanent: it consumes the identity of its command.
ApplyRejection(p) ==
    /\ meta' = IF p.cmd.type = "AuthorizeSignerTrust"
               THEN [meta EXCEPT !.ops = Status(meta, p.cmd.op, "Rejected")]
               ELSE meta

\* reduce_maintenance, for an entry that writes.
ApplyMaintenance(p) ==
    /\ p \in proposals
    /\ p.cmd.type \in Maintenance
    /\ p.epoch = meta.epoch
    /\ ~Replayed(p)
    /\ IF Acceptable(meta, p)
       THEN ApplyEnroll(p) \/ ApplyStage(p) \/ ApplyActivate(p) \/ ApplyPermission(p)
       ELSE ApplyRejection(p)
    /\ proposals' = Stale(p)
    /\ UNCHANGED <<view, trust, live, truth, slot, inv, observed, request, faults>>

\* reduce_coverage, Begin: one dispatch per member and stage; a permission that
\* is already committed leaves its marker at once, a rejected one forbids it.
CoverageBegins(p) ==
    /\ p.cmd.type = "Begin"
    /\ p.epoch = meta.epoch /\ p.fresh
    /\ meta.dispatch[p.cmd.op.v] = None
    /\ p.cmd.op.v \in meta.enrolled
    /\ DirectiveValid(meta, p.cmd.op)
    /\ p.cmd.op \in DOMAIN meta.ops => Completed(meta, p.cmd.op)

ApplyBegin(p) ==
    /\ p \in proposals
    /\ CoverageBegins(p)
    /\ meta' = [meta EXCEPT !.dispatch[p.cmd.op.v] = p.cmd.op,
                            !.marker[p.cmd.op.v] = Completed(meta, p.cmd.op)]
    /\ proposals' = Stale(p)
    /\ UNCHANGED <<view, trust, live, truth, slot, inv, observed, request, faults>>

\* reduce_coverage, Acknowledge: it needs the dispatch and the earlier marker.
CoverageAcknowledges(p) ==
    /\ p.cmd.type = "Acknowledge"
    /\ meta.dispatch[p.cmd.op.v] = p.cmd.op
    /\ meta.marker[p.cmd.op.v]
    /\ ~meta.ack[p.cmd.op.v]
    /\ DirectiveValid(meta, p.cmd.op)

ApplyAcknowledge(p) ==
    /\ p \in proposals
    /\ CoverageAcknowledges(p)
    /\ meta' = [meta EXCEPT !.ack[p.cmd.op.v] = TRUE]
    /\ proposals' = Stale(p)
    /\ UNCHANGED <<view, trust, live, truth, slot, inv, observed, request, faults>>

\* An entry that is answered without a write: an old policy, a replay, a
\* coverage transition that its checks refuse.
ApplyNothing(p) ==
    /\ p \in proposals
    /\ \/ p.cmd.type \in Maintenance /\ (p.epoch # meta.epoch \/ Replayed(p))
       \/ p.cmd.type \notin Maintenance /\ ~CoverageBegins(p) /\ ~CoverageAcknowledges(p)
    /\ proposals' = proposals \ {p}
    /\ UNCHANGED <<meta, view, trust, live, truth, slot, inv, observed, request, faults>>

LoseProposal(p) ==
    /\ p \in proposals
    /\ faults < MaxFaults
    /\ faults' = faults + 1
    /\ proposals' = proposals \ {p}
    /\ UNCHANGED <<meta, view, trust, live, truth, slot, inv, observed, request>>

(* ---- a member's local trust ------------------------------------------- *)

Revision(r) == Cardinality(r.receipts)
ExpectedRevision(op) ==
    CASE op.kind = "Stage" -> 0 [] op.kind = "Activate" -> 1 [] OTHER -> 2

\* administer: the record a command leads to, and whether it may.
Matches(r, op) ==
    /\ Revision(r) = ExpectedRevision(op)
    /\ CASE op.kind = "Stage" -> r.staged = None /\ r.retirement = None
         [] op.kind = "Activate" -> r.staged # None /\ r.staged.k = op.after
         [] OTHER -> r.retirement # None /\ r.retirement.k = op.after

Effect(r, op) ==
    LET next ==
          CASE op.kind = "Stage" -> [r EXCEPT !.staged = op]
            [] op.kind = "Activate" -> [r EXCEPT !.staged = None, !.retirement = op, !.active = 2]
            [] OTHER -> [r EXCEPT !.retirement = None]
    IN [next EXCEPT !.receipts = @ \cup {op}]

NewWitness(r) == IF r.retirement = None THEN None ELSE [age |-> 0, last |-> 0]

\* CompleteRetirement looks at the clock.
Regressed(n, op) ==
    /\ op.kind = "CompleteRetirement"
    /\ live[n].witness # None
    /\ live[n].witness.age < live[n].witness.last
\* Mutant: one tick short.
Drained_OneShort(n, op) ==
    op.kind = "CompleteRetirement" => live[n].witness.age + 1 >= RetirementDrain
Drained(n, op) ==
    op.kind = "CompleteRetirement" => live[n].witness.age >= RetirementDrain

\* AuthorityAdministrativeFence::check and CommittedSignerDirective::check,
\* both on what the member itself has applied.
FenceCurrent(n) == View(n).term = inv[n].term /\ View(n).epoch = inv[n].epoch
DirectiveCurrent(n) ==
    /\ FenceCurrent(n)
    /\ Completed(View(n), inv[n].op)
    /\ View(n).ops[inv[n].op].epoch = View(n).epoch
    /\ DirectiveValid(View(n), inv[n].op)

\* The member is the leader and has applied what the group committed.
Barrier(n) == meta.leader = n /\ view[n] = None

\* What a caller may ask of member n: the next command of its rotation, or one
\* it asked for before.
NextCommands(n) ==
    {op \in Ops :
        /\ op.v = n
        /\ Revision(trust[n]) = ExpectedRevision(op)
        /\ op.after = CASE op.kind = "Stage" -> 0
                        [] op.kind = "Activate" -> trust[n].staged.k
                        [] OTHER -> trust[n].retirement.k}
OldCommands(n) == {op \in DOMAIN meta.ops : op.v = n} \cup trust[n].receipts

\* authorize_signer_maintenance and ScopedSignerAdministrator::bind: one
\* invocation at a time.
BeginInvocation(n, op) ==
    /\ n \in Operated /\ inv[n] = None
    /\ Barrier(n)
    /\ op \in NextCommands(n) \cup OldCommands(n)
    /\ inv' = [inv EXCEPT ![n] = [op |-> op, phase |-> "permit",
                                  term |-> meta.term, epoch |-> meta.epoch]]
    /\ UNCHANGED <<meta, view, proposals, trust, live, truth, slot, observed, request, faults>>

\* commit_signer_directive without a status: propose the permission and wait.
ProposePermission(n) ==
    /\ inv[n] # None /\ inv[n].phase = "permit"
    /\ Barrier(n) /\ FenceCurrent(n)
    /\ inv[n].op \notin DOMAIN meta.ops
    /\ ValidForHead(meta, inv[n].op)
    /\ Propose([type |-> "AuthorizeSignerTrust", op |-> inv[n].op])
    /\ inv' = [inv EXCEPT ![n].phase = "wait"]
    /\ UNCHANGED <<meta, view, trust, live, truth, slot, observed, request, faults>>

Permitted(n) ==
    /\ inv[n] # None /\ inv[n].phase \in {"permit", "wait"}
    /\ Barrier(n) /\ FenceCurrent(n)
    /\ Completed(meta, inv[n].op)
    /\ inv' = [inv EXCEPT ![n].phase = "apply"]
    /\ UNCHANGED <<meta, view, proposals, trust, live, truth, slot, observed, request, faults>>

\* administer up to the release of the owner's lock; a receipt answers at once.
Prepare(n) ==
    /\ inv[n] # None /\ inv[n].phase = "apply"
    /\ ~live[n].closed
    /\ \/ /\ inv[n].op \in trust[n].receipts
          /\ FenceCurrent(n)
          /\ inv' = [inv EXCEPT ![n].phase = "reply"]
          /\ UNCHANGED live
       \/ /\ inv[n].op \notin trust[n].receipts
          /\ DirectiveCurrent(n)
          /\ Matches(trust[n], inv[n].op)
          /\ ~Regressed(n, inv[n].op)
          /\ Drained(n, inv[n].op)
          /\ inv' = [inv EXCEPT ![n].phase = "commit"]
          /\ live' = IF inv[n].op.kind = "CompleteRetirement"
                     THEN [live EXCEPT ![n].witness.last = live[n].witness.age] ELSE live
    /\ UNCHANGED <<meta, view, proposals, trust, truth, slot, observed, request, faults>>

\* A clock that ran backwards closes the owner.
RetirementRegressed(n) ==
    /\ inv[n] # None /\ inv[n].phase = "apply"
    /\ ~live[n].closed
    /\ inv[n].op \notin trust[n].receipts
    /\ DirectiveCurrent(n) /\ Matches(trust[n], inv[n].op)
    /\ Regressed(n, inv[n].op)
    /\ live' = [live EXCEPT ![n].closed = TRUE]
    /\ inv' = [inv EXCEPT ![n] = None]
    /\ UNCHANGED <<meta, view, proposals, trust, truth, slot, observed, request, faults>>

\* An interval that has not elapsed: the witness remembers the reading.
RetirementEarly(n) ==
    /\ inv[n] # None /\ inv[n].phase = "apply"
    /\ ~live[n].closed
    /\ inv[n].op \notin trust[n].receipts
    /\ DirectiveCurrent(n) /\ Matches(trust[n], inv[n].op)
    /\ ~Regressed(n, inv[n].op) /\ ~Drained(n, inv[n].op)
    /\ live' = [live EXCEPT ![n].witness.last = live[n].witness.age]
    /\ inv' = [inv EXCEPT ![n] = None]
    /\ UNCHANGED <<meta, view, proposals, trust, truth, slot, observed, request, faults>>

\* administer from its second authorization: the record, its receipt and a new
\* witness.
Commit(n) ==
    /\ inv[n] # None /\ inv[n].phase = "commit"
    /\ ~live[n].closed
    /\ DirectiveCurrent(n)
    /\ trust' = [trust EXCEPT ![n] = Effect(@, inv[n].op)]
    /\ live' = [live EXCEPT ![n].witness =
                   IF trust'[n].retirement # trust[n].retirement THEN NewWitness(trust'[n]) ELSE @]
    /\ truth' = [truth EXCEPT ![n] = IF inv[n].op.kind = "Activate" THEN 0 ELSE @]
    /\ inv' = [inv EXCEPT ![n].phase = "reply"]
    /\ UNCHANGED <<meta, view, proposals, slot, observed, request, faults>>

\* The commit failed, and may have happened: the owner closes.
CommitUncertain(n) ==
    /\ inv[n] # None /\ inv[n].phase = "commit"
    /\ faults < MaxFaults
    /\ ~live[n].closed
    /\ DirectiveCurrent(n)
    /\ faults' = faults + 1
    /\ \/ trust' = [trust EXCEPT ![n] = Effect(@, inv[n].op)]
       \/ trust' = trust
    /\ truth' = [truth EXCEPT ![n] =
                    IF trust' # trust /\ inv[n].op.kind = "Activate" THEN 0 ELSE @]
    /\ live' = [live EXCEPT ![n].closed = TRUE]
    /\ inv' = [inv EXCEPT ![n] = None]
    /\ UNCHANGED <<meta, view, proposals, slot, observed, request>>

\* The answer leaves after a barrier; a coverage caller keeps what it observed.
Reply(n) ==
    /\ inv[n] # None /\ inv[n].phase = "reply"
    /\ Barrier(n) /\ FenceCurrent(n)
    /\ ~live[n].closed
    /\ observed' = IF inv[n].op = meta.dispatch[n] /\ trust[n].active = 2
                   THEN [observed EXCEPT ![n] = inv[n].op] ELSE observed
    /\ inv' = [inv EXCEPT ![n] = None]
    /\ UNCHANGED <<meta, view, proposals, trust, live, truth, slot, request, faults>>

\* What ends an invocation early: a check that fails at the step it is at.
Refused(n) ==
    \/ live[n].closed
    \/ ~FenceCurrent(n)
    \/ /\ inv[n].phase \in {"permit", "wait", "reply"}
       /\ ~Barrier(n)
    \/ /\ inv[n].phase \in {"permit", "wait"}
       /\ inv[n].op \in DOMAIN meta.ops /\ ~Completed(meta, inv[n].op)
    \/ /\ inv[n].phase = "permit"
       /\ inv[n].op \notin DOMAIN meta.ops /\ ~ValidForHead(meta, inv[n].op)
    \/ /\ inv[n].phase = "wait"
       /\ inv[n].op \notin DOMAIN meta.ops
       /\ \A p \in proposals : p.cmd # [type |-> "AuthorizeSignerTrust", op |-> inv[n].op]
    \/ /\ inv[n].phase = "apply"
       /\ inv[n].op \notin trust[n].receipts
       /\ ~DirectiveCurrent(n) \/ ~Matches(trust[n], inv[n].op)
    \/ inv[n].phase = "commit" /\ ~DirectiveCurrent(n)

EndInvocation(n) ==
    /\ inv[n] # None
    /\ Refused(n)
    /\ inv' = [inv EXCEPT ![n] = None]
    /\ UNCHANGED <<meta, view, proposals, trust, live, truth, slot, observed, request, faults>>

\* A caller that goes away drops its invocation at an await.
CancelInvocation(n) ==
    /\ inv[n] # None /\ inv[n].phase \in {"permit", "wait", "reply"}
    /\ faults < MaxFaults
    /\ faults' = faults + 1
    /\ inv' = [inv EXCEPT ![n] = None]
    /\ UNCHANGED <<meta, view, proposals, trust, live, truth, slot, observed, request>>

(* ---- coverage ---------------------------------------------------------- *)

\* signer_coverage, Start.
StartCoverage(op) ==
    /\ op.kind = "Activate"
    /\ op \in NextCommands(op.v) \cup OldCommands(op.v)
    /\ meta.dispatch[op.v] = None
    /\ Propose([type |-> "Begin", op |-> op])
    /\ UNCHANGED <<meta, view, trust, live, truth, slot, inv, observed, request, faults>>

\* signer_coverage, Resume: the permission before the dispatch.
CoveragePermission(v) ==
    /\ meta.dispatch[v] # None
    /\ meta.dispatch[v] \notin DOMAIN meta.ops
    /\ Propose([type |-> "AuthorizeSignerTrust", op |-> meta.dispatch[v]])
    /\ UNCHANGED <<meta, view, trust, live, truth, slot, inv, observed, request, faults>>

\* Mutant: the permission is taken for the publication it permits.
Acknowledge_Permitted(v) ==
    /\ meta.marker[v]
    /\ ~meta.ack[v]
    /\ Propose([type |-> "Acknowledge", op |-> meta.dispatch[v]])
    /\ observed' = [observed EXCEPT ![v] = None]
    /\ UNCHANGED <<meta, view, trust, live, truth, slot, inv, request, faults>>

\* signer_coverage, Resume: acknowledge what the transport observed.
Acknowledge(v) ==
    /\ observed[v] # None
    /\ observed[v] = meta.dispatch[v]
    /\ ~meta.ack[v]
    /\ Propose([type |-> "Acknowledge", op |-> observed[v]])
    /\ observed' = [observed EXCEPT ![v] = None]
    /\ UNCHANGED <<meta, view, trust, live, truth, slot, inv, request, faults>>

(* ---- issuing leases ---------------------------------------------------- *)

\* check_active_signer: the captured signer against the member's live trust and
\* the replicated head as this member has applied it.
ActiveSigner(n, gen) ==
    /\ ~live[n].closed
    /\ trust[n].active = gen
    /\ View(n).active = gen

\* Mutant: a staged successor does not stop new leases.
IssuanceSigner_Staged(n, gen) == ActiveSigner(n, gen)

\* check_issuance_signer.
IssuanceSigner(n, gen) == ActiveSigner(n, gen) /\ ~View(n).staged

\* request_signer: the signer is captured before anything else.
Capture(r) ==
    /\ request[r] = None
    /\ request' = [request EXCEPT ![r] =
          [node |-> meta.leader, gen |-> slot[meta.leader], phase |-> "captured",
           term |-> 0, seen |-> None]]
    /\ UNCHANGED <<meta, view, proposals, trust, live, truth, slot, inv, observed, faults>>

\* acquire: the barrier, then the lease view.
Observe(r) ==
    /\ request[r] # None /\ request[r].phase = "captured"
    /\ Barrier(request[r].node)
    /\ request' = [request EXCEPT ![r].phase = "viewed", ![r].term = meta.term]
    /\ UNCHANGED <<meta, view, proposals, trust, live, truth, slot, inv, observed, faults>>

Sign(r) ==
    /\ request[r] # None /\ request[r].phase = "viewed"
    /\ IssuanceSigner(request[r].node, request[r].gen)
    /\ request' = [request EXCEPT ![r].phase = "signed"]
    /\ UNCHANGED <<meta, view, proposals, trust, live, truth, slot, inv, observed, faults>>

\* AuthorityResponseFence::release: a barrier in the same term.  `seen` is what
\* the group had committed by then.
ReleaseBarrier(r) ==
    /\ request[r] # None /\ request[r].phase = "signed"
    /\ Barrier(request[r].node)
    /\ request[r].term = meta.term
    /\ request' = [request EXCEPT ![r].phase = "fenced",
                     ![r].seen = [staged |-> meta.staged, active |-> meta.active]]
    /\ UNCHANGED <<meta, view, proposals, trust, live, truth, slot, inv, observed, faults>>

\* AuthorityResponseFence::check.
ReleaseCheck(r) ==
    /\ request[r] # None /\ request[r].phase = "fenced"
    /\ IssuanceSigner(request[r].node, request[r].gen)
    /\ View(request[r].node).term = request[r].term
    /\ request' = [request EXCEPT ![r].phase = "released"]
    /\ UNCHANGED <<meta, view, proposals, trust, live, truth, slot, inv, observed, faults>>

\* A refusal, a caller that goes away, or a released lease that is forgotten.
Drop(r) ==
    /\ request[r] # None
    /\ request' = [request EXCEPT ![r] = None]
    /\ UNCHANGED <<meta, view, proposals, trust, live, truth, slot, inv, observed, faults>>

\* Mutant: a key is only reloaded outside a rotation.
Reload_Steady(n) ==
    /\ Barrier(n)
    /\ ~Frozen(meta)
    /\ slot[n] # trust[n].active
    /\ ActiveSigner(n, trust[n].active)
    /\ slot' = [slot EXCEPT ![n] = trust[n].active]
    /\ UNCHANGED <<meta, view, proposals, trust, live, truth, inv, observed, request, faults>>

\* replace_operational_signer, on the leader, whose caller names the certificate
\* its trust has made current.
Reload(n) ==
    /\ Barrier(n)
    /\ slot[n] # trust[n].active
    /\ ActiveSigner(n, trust[n].active)
    /\ slot' = [slot EXCEPT ![n] = trust[n].active]
    /\ UNCHANGED <<meta, view, proposals, trust, live, truth, inv, observed, request, faults>>

(* ---- the world --------------------------------------------------------- *)

\* Nothing of member n is under way that its view of the group could decide.
Idle(n) == inv[n] = None /\ \A r \in Requests : request[r] = None \/ request[r].node # n

\* A new leader has applied everything; the old one may not know of it.
Elect(n) ==
    /\ meta.term < MaxTerm
    /\ meta' = [meta EXCEPT !.leader = n, !.term = @ + 1]
    /\ \E stale \in IF meta.leader = n \/ Idle(meta.leader) THEN {None} ELSE {None, meta} :
          view' = [view EXCEPT ![n] = None, ![meta.leader] = stale]
    /\ UNCHANGED <<proposals, trust, live, truth, slot, inv, observed, request, faults>>

CatchUp(n) ==
    /\ view[n] # None
    /\ view' = [view EXCEPT ![n] = None]
    /\ UNCHANGED <<meta, proposals, trust, live, truth, slot, inv, observed, request, faults>>

\* A process starts again, after a crash or because its trust is closed: `open`
\* reads the durable record, starts a full retirement witness, and the signer
\* is loaded for the generation the record accepts.
Restart(n) ==
    /\ live[n].closed \/ faults < MaxFaults
    /\ faults' = IF live[n].closed THEN faults ELSE faults + 1
    /\ live' = [live EXCEPT ![n] = [closed |-> FALSE, witness |-> NewWitness(trust[n])]]
    /\ slot' = [slot EXCEPT ![n] = trust[n].active]
    /\ inv' = [inv EXCEPT ![n] = None]
    /\ request' = [r \in Requests |->
                     IF request[r] # None /\ request[r].node = n THEN None ELSE request[r]]
    /\ IF meta.leader = n
       THEN /\ \E m \in Members : meta' = [meta EXCEPT !.leader = m, !.term = @ + 1]
            /\ view' = [view EXCEPT ![n] = None, ![meta'.leader] = None]
       ELSE /\ view' = [view EXCEPT ![n] = None]
            /\ UNCHANGED meta
    /\ UNCHANGED <<proposals, trust, truth, observed>>

\* Elapsed time, on every member's clock.  Ages stop counting where no jump that
\* is still allowed could make a difference.
AgeCap == RetirementDrain + MaxFaults
Tick ==
    /\ \E n \in Members : \/ truth[n] < RetirementDrain
                          \/ live[n].witness # None /\ live[n].witness.age < AgeCap
    /\ truth' = [n \in Members |-> IF truth[n] < RetirementDrain THEN truth[n] + 1 ELSE truth[n]]
    /\ live' = [n \in Members |->
                  IF live[n].witness = None \/ live[n].witness.age = AgeCap THEN live[n]
                  ELSE [live[n] EXCEPT !.witness.age = @ + 1]]
    /\ UNCHANGED <<meta, view, proposals, trust, slot, inv, observed, request, faults>>

\* A member's clock steps back.
Regress(n) ==
    /\ faults < MaxFaults
    /\ live[n].witness # None
    /\ faults' = faults + 1
    /\ live' = [live EXCEPT ![n].witness.age = @ - 1]
    /\ UNCHANGED <<meta, view, proposals, trust, truth, slot, inv, observed, request>>

Init ==
    /\ \E n \in Members :
         meta = [active |-> 1, staged |-> FALSE, retirement |-> FALSE, roster |-> {},
                 enrolled |-> Enrolled, referenced |-> {}, epoch |-> 1, term |-> 1, leader |-> n,
                 ops |-> <<>>, dispatch |-> [v \in Members |-> None],
                 marker |-> [v \in Members |-> FALSE], ack |-> [v \in Members |-> FALSE]]
    /\ view = [n \in Members |-> None]
    /\ proposals = {}
    /\ trust = [n \in Members |-> [staged |-> None, active |-> 1, retirement |-> None,
                                   receipts |-> {}]]
    /\ live = [n \in Members |-> [closed |-> FALSE, witness |-> None]]
    /\ truth = [n \in Members |-> RetirementDrain]
    /\ slot = [n \in Members |-> 1]
    /\ inv = [n \in Members |-> None]
    /\ observed = [n \in Members |-> None]
    /\ request = [r \in Requests |-> None]
    /\ faults = 0

Globals == {[type |-> "EnrollSignerVerifier", v |-> v] : v \in Verifiers}
           \cup {[type |-> "StageSignerGeneration"], [type |-> "ActivateSignerGeneration"]}

ApplyEntry == \E p \in proposals :
    ApplyMaintenance(p) \/ ApplyBegin(p) \/ ApplyAcknowledge(p) \/ ApplyNothing(p)

Invocation(n) ==
    \/ ProposePermission(n) \/ Permitted(n) \/ Prepare(n) \/ RetirementRegressed(n)
    \/ RetirementEarly(n) \/ Commit(n) \/ Reply(n) \/ EndInvocation(n)

Member(n) ==
    \/ \E op \in Ops : BeginInvocation(n, op)
    \/ Invocation(n)
    \/ CommitUncertain(n) \/ CancelInvocation(n)
    \/ Reload(n) \/ Elect(n) \/ CatchUp(n) \/ Restart(n) \/ Regress(n)

Coverage(v) ==
    \/ \E op \in Ops : op.v = v /\ StartCoverage(op)
    \/ CoveragePermission(v) \/ Acknowledge(v)

Lease(r) ==
    \/ Capture(r) \/ Observe(r) \/ Sign(r) \/ ReleaseBarrier(r) \/ ReleaseCheck(r) \/ Drop(r)

Next ==
    \/ \E v \in Others : Reference(v)
    \/ ChangePolicy
    \/ \E cmd \in Globals : ProposeGlobal(cmd)
    \/ ApplyEntry
    \/ \E p \in proposals : LoseProposal(p)
    \/ \E n \in Members : Member(n)
    \/ \E v \in Covered : Coverage(v)
    \/ \E r \in Requests : Lease(r)
    \/ Tick

Spec == Init /\ [][Next]_vars

\* Operators go on: they ask the leader for the next command of its rotation
\* under an identity that can still succeed, and load the key it accepts.
Usable(op) == op \in DOMAIN meta.ops =>
    Completed(meta, op) /\ meta.ops[op].epoch = meta.epoch
BeginUsable(n) == \E op \in NextCommands(n) : Usable(op) /\ BeginInvocation(n, op)
Reopen(n) == live[n].closed /\ Restart(n)

\* Entries are applied, calls run, time passes and a closed process is started
\* again.  The invocation slot and the proposal lock are fair mutexes: whoever
\* keeps asking gets its turn.
Fairness ==
    /\ WF_vars(ApplyEntry) /\ WF_vars(Tick)
    /\ \A n \in Operated :
         /\ SF_vars(Invocation(n)) /\ SF_vars(BeginUsable(n))
         /\ WF_vars(Reload(n)) /\ WF_vars(Reopen(n)) /\ WF_vars(CatchUp(n))

FairSpec == Spec /\ Fairness

(* ---- properties -------------------------------------------------------- *)

TypeOK ==
    /\ meta.active \in 1 .. 2 /\ meta.staged \in BOOLEAN /\ meta.retirement \in BOOLEAN
    /\ meta.enrolled \subseteq Verifiers /\ meta.referenced \subseteq Others
    /\ meta.roster \subseteq meta.enrolled
    /\ meta.epoch \in 1 .. MaxEpoch /\ meta.term \in 1 .. MaxTerm + MaxFaults
    /\ DOMAIN meta.ops \subseteq Ops
    /\ \A n \in Members :
         /\ trust[n].active \in 1 .. 2 /\ trust[n].receipts \subseteq Ops
         /\ slot[n] \in 1 .. 2 /\ truth[n] \in 0 .. RetirementDrain
         /\ inv[n] # None => inv[n].op \in Ops
         /\ ~live[n].closed => (live[n].witness = None) <=> (trust[n].retirement = None)
    /\ faults \in 0 .. MaxFaults
    /\ Cardinality(proposals) <= MaxPending

\* A lease that reaches its caller is signed by the generation that was current,
\* with no successor staged, when its release barrier completed: a rotation in
\* between, a reloaded key and a deposed leader all end in a refusal.
IssuedUnderCurrentGeneration ==
    \A r \in Requests :
        request[r] # None /\ request[r].phase = "released"
          => request[r].seen = [staged |-> FALSE, active |-> request[r].gen]

\* A member's durable trust never runs ahead of the group: it stages only what
\* the group staged and activates only what the group activated, whatever crash,
\* replay or change of leader came between the permission and its effect.
LocalFollowsGlobal ==
    \A n \in Members :
        /\ trust[n].staged # None => Frozen(meta)
        /\ trust[n].active = 2 => meta.active = 2
        /\ slot[n] <= trust[n].active

\* The frozen roster names everybody who must learn of the successor, for as long
\* as the rotation lasts; activation, which checks it again, cannot fail on it.
RosterCovers ==
    Frozen(meta) => meta.roster = meta.enrolled /\ RosterComplete(meta)

\* An acknowledged member has really activated the successor, under exactly the
\* operation its dispatch named.
CoverageIsTrue ==
    \A v \in Members :
        meta.ack[v] => trust[v].active = 2 /\ meta.dispatch[v] \in trust[v].receipts

\* No member retires the old generation before the whole interval has really
\* passed since it activated the new one, across restarts and clock jumps.
DrainedInFull ==
    \A n \in Members :
        trust[n].active = 2 /\ trust[n].retirement = None => truth[n] = RetirementDrain

\* A member's own trust moves neither before the group's nor, in retiring a
\* generation, before its time.
TrustNeverEarly == TypeOK /\ LocalFollowsGlobal /\ DrainedInFull

\* The roster leaves nobody out, and who is counted as covered is.
CoverageSound == RosterCovers /\ CoverageIsTrue

\* Once the group has activated the successor, an operated leader comes to issue
\* under it and to retire the old generation: no crash, uncertain commit, lost proposal or
\* change of administrators leaves a member that no command can move on.  A run
\* that wastes its bounded identities on calls of an old policy is left out.
RotationFinishes ==
    meta.retirement ~>
      \/ meta.leader \notin Operated
      \/ /\ slot[meta.leader] = 2
         /\ trust[meta.leader].active = 2
         /\ trust[meta.leader].retirement = None
      \/ /\ Revision(trust[meta.leader]) < 3
         /\ \A op \in NextCommands(meta.leader) : ~Usable(op)
=============================================================================
